---- MODULE Spec2Model ----
(***************************************************************************)
(* Date-rule resolution of the sanctuary app: Easter computus, anchor      *)
(* tables, the novena rule engines (utils/novenasRules.ts and the older    *)
(* utils/liturgicalDates.ts) and the observance calendar builder           *)
(* (utils/movableFeastsRules.ts).                                          *)
(*                                                                         *)
(* A JavaScript Date is modelled by its time value counted in HOURS since  *)
(* 1970-01-01T00:00Z (every time value the code builds is a whole number   *)
(* of hours; milliseconds would not fit the checker's integers).  The      *)
(* Invalid Date is the value NaN.                                          *)
(***************************************************************************)
EXTENDS Integers, Sequences, FiniteSets, TLC

\* ------------------------------------------------------------------------
\* Bounds of the model
\* ------------------------------------------------------------------------
MaxN == 3            \* largest n tried for nth_weekday_after
MaxBatch == 2        \* longest list of definitions resolved as a batch
MaxItems == 3        \* most items handed to runPool
MaxWorkers == 3      \* most pool workers
MaxCallers == 2      \* most concurrent callers of the rate limiter
MaxInterval == 2     \* largest minimum interval, in milliseconds
MaxRequests == 3     \* most requests sent through the rate limiter
MaxRetries == 3      \* largest --maxRetries

\* ------------------------------------------------------------------------
\* JavaScript Date primitives
\* ------------------------------------------------------------------------
HoursPerDay == 24

NaN == -99999999

\* days since 1970-01-01 of the civil date y-m-d (m in 1..12, d in 1..31)
DaysFromCivil(y, m, d) ==
  LET yy  == IF m <= 2 THEN y - 1 ELSE y
      era == yy \div 400
      yoe == yy - era * 400
      mp  == (m + 9) % 12
      doy == (153 * mp + 2) \div 5 + d - 1
      doe == yoe * 365 + yoe \div 4 - yoe \div 100 + doy
  IN  era * 146097 + doe - 719468

\* civil date of the day doy (counted from March 1) of year yoe of an era,
\* mp being the month counted from March
CivilFromMonth(era, yoe, doy, mp) ==
  [y |-> yoe + era * 400 + (IF mp >= 10 THEN 1 ELSE 0),
   m |-> IF mp < 10 THEN mp + 3 ELSE mp - 9,
   d |-> doy - (153 * mp + 2) \div 5 + 1]

CivilFromDayOfYear(era, yoe, doy) ==
  CivilFromMonth(era, yoe, doy, (5 * doy + 2) \div 153)

CivilFromYearOfEra(era, doe, yoe) ==
  CivilFromDayOfYear(era, yoe,
                     doe - (365 * yoe + yoe \div 4 - yoe \div 100))

CivilFromDayOfEra(era, doe) ==
  CivilFromYearOfEra(era, doe,
    (doe - doe \div 1460 + doe \div 36524 - doe \div 146096) \div 365)

CivilFromEra(zz, era) == CivilFromDayOfEra(era, zz - era * 146097)

\* civil date [y, m, d] of a day number
CivilFromDays(z) == CivilFromEra(z + 719468, (z + 719468) \div 146097)

\* Date.UTC(y, m0, d, h, 0, 0, 0): month is 0-based, month and day overflow
\* are carried into the year and the month
DateUTC(y, m0, d, h) ==
  LET yy == y + m0 \div 12
      mm == m0 % 12
  IN  (DaysFromCivil(yy, mm + 1, 1) + d - 1) * HoursPerDay + h

DayNumber(t) == t \div HoursPerDay
HourOfDay(t) == t % HoursPerDay
getUTCFullYear(t) == CivilFromDays(DayNumber(t)).y
getUTCMonth(t) == CivilFromDays(DayNumber(t)).m - 1
getUTCDate(t) == CivilFromDays(DayNumber(t)).d
getUTCDay(t) == (DayNumber(t) + 4) % 7

\* d.toISOString().slice(0, 10), as the triple year, month, day
toYmd(t) == CivilFromDays(DayNumber(t))

\* Date.prototype.setUTCDate(dayOfMonth): same month and time of day
setUTCDate(t, dom) ==
  DateUTC(getUTCFullYear(t), getUTCMonth(t), dom, 0) + HourOfDay(t)

\* ------------------------------------------------------------------------
\* utils/novenasRules.ts
\* ------------------------------------------------------------------------
Ok(t) == [kind |-> "date", t |-> t, msg |-> ""]
Err(m) == [kind |-> "error", t |-> 0, msg |-> m]
\* a returned value that is not a Date (the rule object itself)
NotADate == [kind |-> "value", t |-> 0, msg |-> ""]

isValidDate(d) == d # NaN

toUTCDate(y, m1, d) == DateUTC(y, m1 - 1, d, 0)

addDays(date, days) == date + days * HoursPerDay

diffDays(a, b) ==
  LET aa == DateUTC(getUTCFullYear(a), getUTCMonth(a), getUTCDate(a), 0)
      bb == DateUTC(getUTCFullYear(b), getUTCMonth(b), getUTCDate(b), 0)
  IN  (bb - aa) \div HoursPerDay

\* Number.isInteger(rec[f]).  A numeric field holds a whole number unless
\* the record lists the field in its frac field, and then its value is the
\* number written plus one half.
Number_isInteger(rec, f) == ~("frac" \in DOMAIN rec /\ f \in rec.frac)

\* TRUE iff clampWeekday(d) returns d for a whole number d (it throws
\* otherwise, as it does for every d that is not whole)
clampWeekday(d) == d >= 0 /\ d <= 6

weekdayUTC(date) == getUTCDay(date)

\* a mutation of alignToWeekday: the policy is ignored, the date always
\* moves forward
alignToWeekday_forward(base, targetWeekday, policy) ==
  LET w == weekdayUTC(base) IN
  IF ~clampWeekday(targetWeekday) THEN Err("weekday must be 0..6")
  ELSE Ok(addDays(base, (targetWeekday - w + 7) % 7))

alignToWeekday(base, targetWeekday, policy) ==
  LET w == weekdayUTC(base) IN
  IF ~clampWeekday(targetWeekday) THEN Err("weekday must be 0..6")
  ELSE IF w = targetWeekday THEN Ok(base)
  ELSE IF policy = "onOrAfter"
       THEN Ok(addDays(base, (targetWeekday - w + 7) % 7))
       ELSE Ok(addDays(base, -((w - targetWeekday + 7) % 7)))

\* a mutation of normalizeAnchors: an entry at or after noon is moved to the
\* midnight that follows it
normalizeAnchors_roundUp(anchors) ==
  [k \in {x \in DOMAIN anchors : isValidDate(anchors[x])} |->
     toUTCDate(getUTCFullYear(anchors[k]), getUTCMonth(anchors[k]) + 1,
               getUTCDate(anchors[k])
                 + (IF HourOfDay(anchors[k]) >= 12 THEN 1 ELSE 0))]

normalizeAnchors(anchors) ==
  [k \in {x \in DOMAIN anchors : isValidDate(anchors[x])} |->
     toUTCDate(getUTCFullYear(anchors[k]), getUTCMonth(anchors[k]) + 1,
               getUTCDate(anchors[k]))]

\* a mutation of anchorsAfterCall: normalizeAnchors rewrites the entries of
\* the table it is given instead of filling a table of its own
anchorsAfterCall_inPlace(anchorsRaw) == normalizeAnchors(anchorsRaw)

\* the caller's table after a call of resolveRule or resolveNovenaForYear:
\* normalizeAnchors reads the entries of its argument and writes only its own
\* object out, and nothing else in the module writes to the table
anchorsAfterCall(anchorsRaw) == anchorsRaw

AnchorRule(key) == [type |-> "anchor", anchor |-> key]

\* a mutation of nthWeekdayScan: the scan also examines the day before d,
\* which is the anchor date itself
RECURSIVE nthWeekdayScan_fromAnchor(_, _, _, _)
nthWeekdayScan_fromAnchor(d, count, target, n) ==
  IF weekdayUTC(addDays(d, -1)) = target
  THEN IF count + 1 = n THEN addDays(d, -1)
       ELSE nthWeekdayScan_fromAnchor(addDays(d, 1), count + 1, target, n)
  ELSE nthWeekdayScan_fromAnchor(addDays(d, 1), count, target, n)

\* the scan of nth_weekday_after: d is the day examined, count the matches
\* seen before it
RECURSIVE nthWeekdayScan(_, _, _, _)
nthWeekdayScan(d, count, target, n) ==
  IF weekdayUTC(d) = target
  THEN IF count + 1 = n THEN d
       ELSE nthWeekdayScan(addDays(d, 1), count + 1, target, n)
  ELSE nthWeekdayScan(addDays(d, 1), count, target, n)

NoCtx == [hasFeastRule |-> FALSE]
FeastCtx(r) == [hasFeastRule |-> TRUE, feastRule |-> r]

\* a mutation of resolveAnchorCase: a missing anchor falls back to the epoch
resolveAnchorCase_epochDefault(rule, anchors) ==
  IF rule.anchor \in DOMAIN anchors /\ isValidDate(anchors[rule.anchor])
  THEN LET a == anchors[rule.anchor]
       IN  Ok(toUTCDate(getUTCFullYear(a), getUTCMonth(a) + 1, getUTCDate(a)))
  ELSE Ok(toUTCDate(1970, 1, 1))

\* case "anchor" of resolveRule, on the normalized table
resolveAnchorCase(rule, anchors) ==
  IF rule.anchor \in DOMAIN anchors /\ isValidDate(anchors[rule.anchor])
  THEN LET a == anchors[rule.anchor]
       IN  Ok(toUTCDate(getUTCFullYear(a), getUTCMonth(a) + 1, getUTCDate(a)))
  ELSE Err("Missing/invalid anchor")

\* a mutation of beforeFeastAnchor: a feast rule that is not an anchor
\* rule is taken to stand for the table's "feast" entry
beforeFeastAnchor_inferred(rule, ctx) ==
  IF "anchor" \in DOMAIN rule THEN rule.anchor
  ELSE IF ctx.hasFeastRule /\ ctx.feastRule.type = "anchor"
       THEN ctx.feastRule.anchor
       ELSE "feast"

\* rule.anchor ?? (ctx?.feastRule?.type === "anchor" ? ctx.feastRule.anchor
\* : undefined), with "" for undefined (both fail the assertion that follows)
beforeFeastAnchor(rule, ctx) ==
  IF "anchor" \in DOMAIN rule THEN rule.anchor
  ELSE IF ctx.hasFeastRule /\ ctx.feastRule.type = "anchor"
       THEN ctx.feastRule.anchor
       ELSE ""

RECURSIVE resolveRule(_, _, _, _)
resolveRule(rule, year, anchorsRaw, ctx) ==
  LET anchors == normalizeAnchors(anchorsRaw) IN
  CASE rule.type = "fixed" ->
         IF ~(rule.month >= 1 /\ rule.month <= 12)
         THEN Err("fixed.month must be 1..12")
         ELSE IF ~(rule.day >= 1 /\ rule.day <= 31)
         THEN Err("fixed.day must be 1..31")
         ELSE Ok(toUTCDate(year, rule.month, rule.day))
    [] rule.type = "anchor" -> resolveAnchorCase(rule, anchors)
    [] rule.type = "relative" ->
         LET base == resolveRule(AnchorRule(rule.anchor), year, anchors, NoCtx)
         IN  IF base.kind = "error" THEN base
             ELSE LET moved == addDays(base.t, rule.offsetDays) IN
                  IF "weekday" \in DOMAIN rule
                  THEN IF ~Number_isInteger(rule, "weekday")
                       THEN Err("weekday must be 0..6")
                       ELSE alignToWeekday(moved, rule.weekday,
                              IF "weekdayPolicy" \in DOMAIN rule
                              THEN rule.weekdayPolicy ELSE "onOrAfter")
                  ELSE Ok(moved)
    [] rule.type = "nth_weekday_after" ->
         LET base == resolveRule(AnchorRule(rule.anchor), year, anchors, NoCtx)
         IN  IF base.kind = "error" THEN base
             ELSE IF ~(Number_isInteger(rule, "weekday")
                       /\ clampWeekday(rule.weekday))
             THEN Err("weekday must be 0..6")
             ELSE IF ~(rule.n >= 1 /\ Number_isInteger(rule, "n"))
             THEN Err("nth_weekday_after.n must be integer >=1")
             ELSE Ok(nthWeekdayScan(addDays(base.t, 1), 0, rule.weekday,
                                    rule.n))
    [] rule.type = "before_feast" ->
         IF ~(Number_isInteger(rule, "daysBefore") /\ rule.daysBefore >= 1)
         THEN Err("before_feast.daysBefore must be integer >=1")
         ELSE LET anchor == beforeFeastAnchor(rule, ctx)
              IN  IF anchor = ""
                  THEN Err("before_feast requires anchor or feastRule must be type=anchor")
                  ELSE LET feast == resolveRule(AnchorRule(anchor), year,
                                                anchors, NoCtx)
                       IN  IF feast.kind = "error" THEN feast
                           ELSE Ok(addDays(feast.t, -(rule.daysBefore - 1)))
    [] OTHER -> NotADate

maybeRollFixedStartAcrossYear(n, year, startDate, feastDate) ==
  IF ~("startRule" \in DOMAIN n /\ n.startRule.type = "fixed") THEN startDate
  ELSE IF startDate > feastDate
       THEN toUTCDate(year - 1, n.startRule.month, n.startRule.day)
       ELSE startDate

\* a mutation of normalizeDurationDays: the default duration is 8
normalizeDurationDays_default8(n) ==
  LET d == IF "durationDays" \in DOMAIN n THEN n.durationDays ELSE 8
  IN  IF Number_isInteger(n, "durationDays") /\ d >= 1 /\ d <= 4000
      THEN d ELSE 0

\* a mutation of normalizeDurationDays: the value is not validated
normalizeDurationDays_unchecked(n) ==
  LET d == IF "durationDays" \in DOMAIN n THEN n.durationDays ELSE 9
  IN  IF d >= 1 THEN d ELSE 1

\* the value of normalizeDurationDays(n), or 0 when its assertion throws
normalizeDurationDays(n) ==
  LET d == IF "durationDays" \in DOMAIN n THEN n.durationDays ELSE 9
  IN  IF Number_isInteger(n, "durationDays") /\ d >= 1 /\ d <= 4000
      THEN d ELSE 0

\* a mutation of canonicalStart: the feast day is not counted in the span
canonicalStart_exclusive(feastDate, durationDays) ==
  addDays(feastDate, -durationDays)

\* step 2 of resolveNovenaForYear: the start computed from feast and duration
canonicalStart(feastDate, durationDays) ==
  addDays(feastDate, -(durationDays - 1))

\* a mutation of reconcileStart: the hinted start is always trusted
reconcileStart_trustHint(hinted, computedStart) == hinted

\* step 3 of resolveNovenaForYear: the hint is accepted only when it matches
reconcileStart(hinted, computedStart) ==
  IF hinted = computedStart THEN hinted ELSE computedStart

Instance(n, startDate, feastDate, durationDays) ==
  [kind |-> "instance", id |-> n.id, startDate |-> startDate,
   feastDate |-> feastDate, durationDays |-> durationDays, msg |-> ""]
Failure(m) ==
  [kind |-> "error", id |-> "", startDate |-> 0, feastDate |-> 0,
   durationDays |-> 0, msg |-> m]

\* a mutation of validateNovena: the span does not count the feast day
validateNovena_exclusiveSpan(n, startDate, feastDate, durationDays) ==
  IF ~(startDate <= feastDate) THEN Failure("invalid: start after feast")
  ELSE IF diffDays(startDate, feastDate) # durationDays
       THEN Failure("duration mismatch")
       ELSE Instance(n, startDate, feastDate, durationDays)

\* step 4 of resolveNovenaForYear: the two assertions and the instance
validateNovena(n, startDate, feastDate, durationDays) ==
  IF ~(startDate <= feastDate) THEN Failure("invalid: start after feast")
  ELSE IF diffDays(startDate, feastDate) + 1 # durationDays
       THEN Failure("duration mismatch")
       ELSE Instance(n, startDate, feastDate, durationDays)

\* a mutation of novenaWithHint: a start rule that yields no date is ignored
\* like a mismatching one
novenaWithHint_lenient(n, year, feastDate, durationDays, computedStart, hint) ==
  IF hint.kind # "date"
  THEN validateNovena(n, computedStart, feastDate, durationDays)
  ELSE validateNovena(n,
         reconcileStart(
           maybeRollFixedStartAcrossYear(n, year, hint.t, feastDate),
           computedStart),
         feastDate, durationDays)

\* step 3 of resolveNovenaForYear, hint being what resolveRule returned for
\* the start rule
novenaWithHint(n, year, feastDate, durationDays, computedStart, hint) ==
  IF hint.kind = "error" THEN Failure(hint.msg)
  \* maybeRollFixedStartAcrossYear passes a non-date through (its rule is
  \* not fixed) and hinted.getTime() then throws
  ELSE IF hint.kind # "date"
       THEN Failure("TypeError: hinted.getTime is not a function")
       ELSE validateNovena(n,
              reconcileStart(
                maybeRollFixedStartAcrossYear(n, year, hint.t, feastDate),
                computedStart),
              feastDate, durationDays)

\* steps 2 to 4 of resolveNovenaForYear, feast being what resolveRule
\* returned for the feast rule
novenaWithFeast(n, year, anchors, durationDays, feast) ==
  IF feast.kind = "error" THEN Failure(feast.msg)
  \* addDays(feastDate, ...) calls getTime() on what resolveRule returned
  ELSE IF feast.kind # "date"
       THEN Failure("TypeError: date.getTime is not a function")
       ELSE IF "startRule" \in DOMAIN n
            THEN novenaWithHint(n, year, feast.t, durationDays,
                   canonicalStart(feast.t, durationDays),
                   resolveRule(n.startRule, year, anchors,
                               FeastCtx(n.feastRule)))
            ELSE validateNovena(n, canonicalStart(feast.t, durationDays),
                                feast.t, durationDays)

resolveNovenaForYear(n, year, anchors) ==
  IF normalizeDurationDays(n) = 0 THEN Failure("durationDays invalid")
  ELSE novenaWithFeast(n, year, anchors, normalizeDurationDays(n),
                       resolveRule(n.feastRule, year, anchors, NoCtx))

\* ------------------------------------------------------------------------
\* utils/liturgicalEngine.ts
\* ------------------------------------------------------------------------
\* the % of JavaScript: the sign of the result is the sign of the dividend
JsMod(a, b) == IF a >= 0 THEN a % b ELSE -((-a) % b)

utcNoonDate(y, m0, d) == DateUTC(y, m0, d, 12)

addDaysUTC(d, days) == d + days * HoursPerDay

nextWeekday(d, weekday, includeSameDay) ==
  LET cur == getUTCDay(d)
      delta0 == JsMod(weekday - cur + 7, 7)
      delta == IF delta0 = 0 /\ ~includeSameDay THEN 7 ELSE delta0
  IN  addDaysUTC(d, delta)

prevWeekday(d, weekday, includeSameDay) ==
  LET cur == getUTCDay(d)
      delta0 == JsMod(cur - weekday + 7, 7)
      delta == IF delta0 = 0 /\ ~includeSameDay THEN 7 ELSE delta0
  IN  addDaysUTC(d, -delta)

\* a mutation of computusMonthDay: the weekday correction l starts from 31
\* instead of 32
computusMonthDay_l(year) ==
  LET a == JsMod(year, 19)
      b == year \div 100
      c == JsMod(year, 100)
      d == b \div 4
      e == JsMod(b, 4)
      f == (b + 8) \div 25
      g == (b - f + 1) \div 3
      h == JsMod(19 * a + b - d - g + 15, 30)
      i == c \div 4
      k == JsMod(c, 4)
      l == JsMod(31 + 2 * e + 2 * i - h - k, 7)
      m == (a + 11 * h + 22 * l) \div 451
      month == (h + l - 7 * m + 114) \div 31
      day == JsMod(h + l - 7 * m + 114, 31) + 1
  IN  [month |-> month, day |-> day]

\* the month (3 or 4) and day of Easter Sunday: lines 60-73 of the computus
computusMonthDay(year) ==
  LET a == JsMod(year, 19)
      b == year \div 100
      c == JsMod(year, 100)
      d == b \div 4
      e == JsMod(b, 4)
      f == (b + 8) \div 25
      g == (b - f + 1) \div 3
      h == JsMod(19 * a + b - d - g + 15, 30)
      i == c \div 4
      k == JsMod(c, 4)
      l == JsMod(32 + 2 * e + 2 * i - h - k, 7)
      m == (a + 11 * h + 22 * l) \div 451
      month == (h + l - 7 * m + 114) \div 31
      day == JsMod(h + l - 7 * m + 114, 31) + 1
  IN  [month |-> month, day |-> day]

computeEasterSunday(year) ==
  LET md == computusMonthDay(year) IN utcNoonDate(year, md.month - 1, md.day)

buildMoveableMapForYear(year) ==
  LET easter == computeEasterSunday(year) IN
  [year |-> year,
   easter |-> easter,
   ashWednesday |-> addDaysUTC(easter, -46),
   palmSunday |-> addDaysUTC(easter, -7),
   holyThursday |-> addDaysUTC(easter, -3),
   goodFriday |-> addDaysUTC(easter, -2),
   holySaturday |-> addDaysUTC(easter, -1),
   pentecost |-> addDaysUTC(easter, 49),
   christmas |-> utcNoonDate(year, 11, 25)]

\* ------------------------------------------------------------------------
\* utils/liturgicalDates.ts, the anchor builder
\* ------------------------------------------------------------------------
RECURSIVE holyFamilyScan(_, _)
holyFamilyScan(dec26, i) ==
  IF i > 5 THEN NaN
  ELSE IF getUTCDay(addDaysUTC(dec26, i)) = 0 THEN addDaysUTC(dec26, i)
  ELSE holyFamilyScan(dec26, i + 1)

\* a mutation of holyFamily: the scan goes one day further, to Jan 1
holyFamily_toJan1(year) ==
  LET found == holyFamilyScan(utcNoonDate(year, 11, 25), 1)
  IN  IF found # NaN THEN found
      ELSE IF getUTCDay(utcNoonDate(year, 11, 32)) = 0
           THEN utcNoonDate(year, 11, 32)
           ELSE utcNoonDate(year, 11, 30)

holyFamily(year) ==
  LET found == holyFamilyScan(utcNoonDate(year, 11, 26), 0)
  IN  IF found # NaN THEN found ELSE utcNoonDate(year, 11, 30)

firstSundayOfAdvent(year) == nextWeekday(utcNoonDate(year, 10, 27), 0, TRUE)

christTheKing(year) == addDaysUTC(firstSundayOfAdvent(year), -7)

\* a mutation of buildNovenaAnchorsForYear: Shrove Tuesday is taken two days
\* before Ash Wednesday and Pentecost fifty days after Easter
buildNovenaAnchorsForYear_offByOne(year) ==
  LET easter == computeEasterSunday(year)
      ash_wednesday == addDaysUTC(easter, -46)
      epiphany == utcNoonDate(year, 0, 6)
  IN
  [easter |-> easter,
   ash_wednesday |-> ash_wednesday,
   shrove_tuesday |-> addDaysUTC(ash_wednesday, -2),
   palm_sunday |-> addDaysUTC(easter, -7),
   holy_thursday |-> addDaysUTC(easter, -3),
   good_friday |-> addDaysUTC(easter, -2),
   holy_saturday |-> addDaysUTC(easter, -1),
   divine_mercy_sunday |-> addDaysUTC(easter, 7),
   ascension_thursday |-> addDaysUTC(easter, 39),
   ascension_sunday |-> addDaysUTC(easter, 42),
   pentecost |-> addDaysUTC(easter, 50),
   trinity_sunday |-> addDaysUTC(easter, 56),
   corpus_christi |-> addDaysUTC(easter, 60),
   corpus_christi_sunday |-> addDaysUTC(easter, 63),
   sacred_heart |-> addDaysUTC(easter, 68),
   immaculate_heart |-> addDaysUTC(easter, 69),
   christmas |-> utcNoonDate(year, 11, 25),
   christmas_eve |-> utcNoonDate(year, 11, 24),
   mary_mother_of_god |-> utcNoonDate(year, 0, 1),
   new_years_eve |-> utcNoonDate(year, 11, 31),
   epiphany |-> epiphany,
   baptism_of_the_lord |-> nextWeekday(epiphany, 0, FALSE),
   holy_family |-> holyFamily(year),
   advent_1 |-> firstSundayOfAdvent(year),
   christ_king |-> christTheKing(year),
   annunciation |-> utcNoonDate(year, 2, 25),
   assumption |-> utcNoonDate(year, 7, 15),
   all_saints |-> utcNoonDate(year, 10, 1),
   immaculate_conception |-> utcNoonDate(year, 11, 8)]

buildNovenaAnchorsForYear(year) ==
  LET easter == computeEasterSunday(year)
      ash_wednesday == addDaysUTC(easter, -46)
      epiphany == utcNoonDate(year, 0, 6)
  IN
  [easter |-> easter,
   ash_wednesday |-> ash_wednesday,
   shrove_tuesday |-> addDaysUTC(ash_wednesday, -1),
   palm_sunday |-> addDaysUTC(easter, -7),
   holy_thursday |-> addDaysUTC(easter, -3),
   good_friday |-> addDaysUTC(easter, -2),
   holy_saturday |-> addDaysUTC(easter, -1),
   divine_mercy_sunday |-> addDaysUTC(easter, 7),
   ascension_thursday |-> addDaysUTC(easter, 39),
   ascension_sunday |-> addDaysUTC(easter, 42),
   pentecost |-> addDaysUTC(easter, 49),
   trinity_sunday |-> addDaysUTC(easter, 56),
   corpus_christi |-> addDaysUTC(easter, 60),
   corpus_christi_sunday |-> addDaysUTC(easter, 63),
   sacred_heart |-> addDaysUTC(easter, 68),
   immaculate_heart |-> addDaysUTC(easter, 69),
   christmas |-> utcNoonDate(year, 11, 25),
   christmas_eve |-> utcNoonDate(year, 11, 24),
   mary_mother_of_god |-> utcNoonDate(year, 0, 1),
   new_years_eve |-> utcNoonDate(year, 11, 31),
   epiphany |-> epiphany,
   baptism_of_the_lord |-> nextWeekday(epiphany, 0, FALSE),
   holy_family |-> holyFamily(year),
   advent_1 |-> firstSundayOfAdvent(year),
   christ_king |-> christTheKing(year),
   annunciation |-> utcNoonDate(year, 2, 25),
   assumption |-> utcNoonDate(year, 7, 15),
   all_saints |-> utcNoonDate(year, 10, 1),
   immaculate_conception |-> utcNoonDate(year, 11, 8)]

\* ------------------------------------------------------------------------
\* utils/liturgicalDates.ts, the older rule engine
\* ------------------------------------------------------------------------
utcDate(y, m, d) == DateUTC(y, m - 1, d, 12)

ld_addDays(date, days) == setUTCDate(date, getUTCDate(date) + days)

dayOfWeekUTC(date) == getUTCDay(date)

snapForwardToWeekday(date, weekday) ==
  ld_addDays(date, JsMod(weekday - dayOfWeekUTC(date) + 7, 7))

\* a mutation of ld_computeEasterSunday: the correction m is left at 0
ld_computeEasterSunday_noM(year) ==
  LET a == JsMod(year, 19)
      b == year \div 100
      c == JsMod(year, 100)
      d == b \div 4
      e == JsMod(b, 4)
      f == (b + 8) \div 25
      g == (b - f + 1) \div 3
      h == JsMod(19 * a + b - d - g + 15, 30)
      i == c \div 4
      k == JsMod(c, 4)
      l == JsMod(32 + 2 * e + 2 * i - h - k, 7)
      m == 0
      month == (h + l - 7 * m + 114) \div 31
      day == JsMod(h + l - 7 * m + 114, 31) + 1
  IN  utcDate(year, month, day)

ld_computeEasterSunday(year) ==
  LET a == JsMod(year, 19)
      b == year \div 100
      c == JsMod(year, 100)
      d == b \div 4
      e == JsMod(b, 4)
      f == (b + 8) \div 25
      g == (b - f + 1) \div 3
      h == JsMod(19 * a + b - d - g + 15, 30)
      i == c \div 4
      k == JsMod(c, 4)
      l == JsMod(32 + 2 * e + 2 * i - h - k, 7)
      m == (a + 11 * h + 22 * l) \div 451
      month == (h + l - 7 * m + 114) \div 31
      day == JsMod(h + l - 7 * m + 114, 31) + 1
  IN  utcDate(year, month, day)

RECURSIVE ld_holyFamilyScan(_, _)
ld_holyFamilyScan(dec26, i) ==
  IF i > 5 THEN NaN
  ELSE IF dayOfWeekUTC(ld_addDays(dec26, i)) = 0 THEN ld_addDays(dec26, i)
  ELSE ld_holyFamilyScan(dec26, i + 1)

\* the switch of computeAnchorDate, easter being computeEasterSunday(year)
anchorFromEaster(anchor, year, easter) ==
  CASE anchor \in {"easter", "easter_sunday"} -> Ok(easter)
    [] anchor = "good_friday" -> Ok(ld_addDays(easter, -2))
    [] anchor = "divine_mercy_sunday" -> Ok(ld_addDays(easter, 7))
    [] anchor = "pentecost" -> Ok(ld_addDays(easter, 49))
    [] anchor = "ascension_thursday" -> Ok(ld_addDays(easter, 39))
    [] anchor = "corpus_christi" -> Ok(ld_addDays(easter, 60))
    [] anchor = "ash_wednesday" -> Ok(ld_addDays(easter, -46))
    [] anchor = "shrove_tuesday" -> Ok(ld_addDays(easter, -47))
    [] anchor \in {"christmas", "christmas_day"} -> Ok(utcDate(year, 12, 25))
    [] anchor = "mary_mother_of_god" -> Ok(utcDate(year, 1, 1))
    [] anchor = "holy_family" ->
         LET found == ld_holyFamilyScan(utcDate(year, 12, 26), 0)
         IN  Ok(IF found # NaN THEN found ELSE utcDate(year, 12, 30))
    [] OTHER -> Err("Unknown anchor")

computeAnchorDate(anchor, year) ==
  anchorFromEaster(anchor, year, ld_computeEasterSunday(year))

NoFeastDate == [hasFeastDate |-> FALSE]
FeastDateCtx(t) == [hasFeastDate |-> TRUE, feastDate |-> t]

\* the anchor date the anchor, relative and nth_weekday_after cases compute
ruleBase(rule, year) ==
  IF rule.type \in {"anchor", "relative", "nth_weekday_after"}
  THEN computeAnchorDate(rule.anchor, year)
  ELSE NotADate

\* the switch of computeDateForRule, base being the rule's anchor date
dateForRuleFrom(rule, year, ctx, base) ==
  CASE rule.type = "fixed" -> Ok(utcDate(year, rule.month, rule.day))
    [] rule.type = "anchor" -> base
    [] rule.type = "relative" ->
         IF base.kind = "error" THEN base
         ELSE LET shifted == ld_addDays(base.t, rule.offsetDays) IN
              IF "weekday" \in DOMAIN rule
              THEN Ok(snapForwardToWeekday(shifted, rule.weekday))
              ELSE Ok(shifted)
    [] rule.type = "nth_weekday_after" ->
         IF base.kind = "error" THEN base
         ELSE LET firstWindow == ld_addDays(base.t, 1)
                  first == snapForwardToWeekday(firstWindow, rule.weekday)
              IN  Ok(ld_addDays(first, (rule.n - 1) * 7))
    [] rule.type = "before_feast" ->
         IF ~ctx.hasFeastDate
         THEN Err("before_feast used but feastDate not provided")
         ELSE Ok(ld_addDays(ctx.feastDate, -rule.daysBefore))
    [] rule.type = "raw" -> Err("Unrecognized raw rule")
    [] OTHER -> NotADate

computeDateForRule(rule, year, ctx) ==
  dateForRuleFrom(rule, year, ctx, ruleBase(rule, year))

Dates(startDate, feastDate) ==
  [kind |-> "dates", id |-> "", startDate |-> startDate,
   feastDate |-> feastDate, durationDays |-> 0, msg |-> ""]

\* a mutation of strictResult: the sanity check is left out
strictResult_unchecked(startDate, feastDate) == Dates(startDate, feastDate)

\* the end of computeNovenaDatesForYearStrict: the sanity check
strictResult(startDate, feastDate) ==
  IF startDate > feastDate THEN Failure("Start date is after feast date")
  ELSE Dates(startDate, feastDate)

\* the cross-year retry, prev being the start rule computed for year - 1
strictRetry(start1, prev, feastDate) ==
  IF prev.kind # "date" THEN Failure(prev.msg)
  ELSE strictResult(IF prev.t <= feastDate THEN prev.t ELSE start1,
                    feastDate)

\* computeNovenaDatesForYearStrict from attempt 1 on, start being the start
\* rule computed for the year
strictWithStart(entry, year, feastDate, start) ==
  IF start.kind # "date" THEN Failure(start.msg)
  ELSE IF start.t > feastDate
       THEN strictRetry(start.t,
              computeDateForRule(entry.startRule, year - 1,
                                 FeastDateCtx(feastDate)),
              feastDate)
       ELSE strictResult(start.t, feastDate)

\* computeNovenaDatesForYearStrict once the feast rule is computed
strictWithFeast(entry, year, feast) ==
  IF feast.kind # "date" THEN Failure(feast.msg)
  ELSE strictWithStart(entry, year, feast.t,
         computeDateForRule(entry.startRule, year, FeastDateCtx(feast.t)))

computeNovenaDatesForYearStrict(entry, year) ==
  strictWithFeast(entry, year,
                  computeDateForRule(entry.feastRule, year, NoFeastDate))

\* ------------------------------------------------------------------------
\* utils/movableFeastsRules.ts, the observance calendar builder
\* ------------------------------------------------------------------------
Obs(id, title, rank, color, season, kind) ==
  [id |-> id, title |-> title, rank |-> rank, color |-> color,
   season |-> season, kind |-> kind]

\* an observance without a kind
Celebration(id, title, rank, color, season) ==
  Obs(id, title, rank, color, season, "")

Marker(id, title, rank, color, season) ==
  Obs(id, title, rank, color, season, "SeasonMarker")

\* one call push(out, date, obs)
Push(date, obs) == [date |-> date, obs |-> obs]

weight(r) ==
  CASE r = "Triduum" -> 6
    [] r = "Solemnity" -> 5
    [] r = "Sunday" -> 4
    [] r = "Feast" -> 3
    [] r = "Memorial" -> 2
    [] r = "Optional Memorial" -> 1
    [] OTHER -> 0

\* every title the builder can produce, in the order of localeCompare (the
\* typographic apostrophe and dash of two titles are written in ASCII)
TitleOrder ==
  <<"Ascension of the Lord (Thursday)",
    "Ascension of the Lord (Transferred to Sunday)",
    "Ash Wednesday",
    "Baptism of the Lord",
    "Easter Octave (Day 2)",
    "Easter Octave (Day 3)",
    "Easter Octave (Day 4)",
    "Easter Octave (Day 5)",
    "Easter Octave (Day 6)",
    "Easter Octave (Day 7)",
    "Easter Sunday of the Resurrection of the Lord",
    "Eighteenth Sunday in Ordinary Time",
    "Eighth Sunday in Ordinary Time",
    "Eleventh Sunday in Ordinary Time",
    "Epiphany of the Lord",
    "Fifteenth Sunday in Ordinary Time",
    "Fifth Sunday in Ordinary Time",
    "Fifth Sunday of Lent",
    "First Sunday in Ordinary Time",
    "First Sunday of Advent",
    "First Sunday of Lent",
    "Fourteenth Sunday in Ordinary Time",
    "Fourth Sunday in Ordinary Time",
    "Fourth Sunday of Advent",
    "Fourth Sunday of Lent (Laetare Sunday)",
    "Good Friday of the Passion of the Lord",
    "Holy Saturday",
    "Holy Thursday (Evening Mass of the Lord's Supper)",
    "Immaculate Heart of Mary",
    "Mary, the Holy Mother of God",
    "Most Sacred Heart of Jesus",
    "Nineteenth Sunday in Ordinary Time",
    "Ninth Sunday in Ordinary Time",
    "Our Lord Jesus Christ, King of the Universe (Christ the King)",
    "Palm Sunday of the Passion of the Lord",
    "Pentecost Sunday",
    "Season begins: Advent",
    "Season begins: Christmas",
    "Season begins: Easter (Easter Sunday)",
    "Season begins: Lent (Ash Wednesday)",
    "Season begins: Ordinary Time (after Baptism)",
    "Season resumes: Ordinary Time (after Pentecost)",
    "Second Sunday in Ordinary Time",
    "Second Sunday of Advent",
    "Second Sunday of Easter (Divine Mercy Sunday)",
    "Second Sunday of Lent",
    "Seventeenth Sunday in Ordinary Time",
    "Seventh Sunday in Ordinary Time",
    "Sixteenth Sunday in Ordinary Time",
    "Sixth Sunday in Ordinary Time",
    "Tenth Sunday in Ordinary Time",
    "The Most Holy Body and Blood of Christ (Corpus Christi) - Sunday",
    "The Most Holy Body and Blood of Christ (Corpus Christi) - Thursday",
    "Third Sunday in Ordinary Time",
    "Third Sunday of Advent (Gaudete Sunday)",
    "Third Sunday of Lent",
    "Thirteenth Sunday in Ordinary Time",
    "Thirtieth Sunday in Ordinary Time",
    "Thirty-First Sunday in Ordinary Time",
    "Thirty-Fourth Sunday in Ordinary Time",
    "Thirty-Second Sunday in Ordinary Time",
    "Thirty-Third Sunday in Ordinary Time",
    "Trinity Sunday",
    "Twelfth Sunday in Ordinary Time",
    "Twentieth Sunday in Ordinary Time",
    "Twenty-Eighth Sunday in Ordinary Time",
    "Twenty-Fifth Sunday in Ordinary Time",
    "Twenty-First Sunday in Ordinary Time",
    "Twenty-Fourth Sunday in Ordinary Time",
    "Twenty-Ninth Sunday in Ordinary Time",
    "Twenty-Second Sunday in Ordinary Time",
    "Twenty-Seventh Sunday in Ordinary Time",
    "Twenty-Sixth Sunday in Ordinary Time",
    "Twenty-Third Sunday in Ordinary Time">>

\* sign of a.localeCompare(b) on the builder's titles
localeCompare(a, b) ==
  LET ia == CHOOSE i \in 1 .. Len(TitleOrder) : TitleOrder[i] = a
      ib == CHOOSE i \in 1 .. Len(TitleOrder) : TitleOrder[i] = b
  IN  ia - ib

\* a mutation of compareObs: the lighter rank sorts first
compareObs_ascending(a, b) ==
  LET dw == weight(a.rank) - weight(b.rank)
  IN  IF dw # 0 THEN dw ELSE localeCompare(a.title, b.title)

\* the comparator of normalize: negative when a sorts before b
compareObs(a, b) ==
  LET dw == weight(b.rank) - weight(a.rank)
  IN  IF dw # 0 THEN dw ELSE localeCompare(a.title, b.title)

\* filter of normalize: the first entry of every id is kept
RECURSIVE dedupeById(_, _)
dedupeById(list, seen) ==
  IF list = << >> THEN << >>
  ELSE IF Head(list).id \in seen THEN dedupeById(Tail(list), seen)
  ELSE <<Head(list)>> \o dedupeById(Tail(list), seen \cup {Head(list).id})

\* x put into the sorted list after the entries that do not sort after it
RECURSIVE insertSorted(_, _)
insertSorted(sorted, x) ==
  IF sorted = << >> THEN <<x>>
  ELSE IF compareObs(x, Head(sorted)) < 0 THEN <<x>> \o sorted
  ELSE <<Head(sorted)>> \o insertSorted(Tail(sorted), x)

\* Array.prototype.sort with compareObs (a stable sort)
RECURSIVE sortObs(_)
sortObs(list) ==
  IF list = << >> THEN << >>
  ELSE insertSorted(sortObs(SubSeq(list, 1, Len(list) - 1)),
                    list[Len(list)])

normalize(out) == [k \in DOMAIN out |-> sortObs(dedupeById(out[k], {}))]

sundayOnOrAfter(d) == nextWeekday(d, 0, TRUE)

sundayOnOrBefore(d) == prevWeekday(d, 0, TRUE)

\* Math.round((a - b) / MS_PER_DAY)
diffDaysUTC(a, b) == (2 * (a - b) + HoursPerDay) \div (2 * HoursPerDay)

ordinalWords ==
  <<"First", "Second", "Third", "Fourth", "Fifth", "Sixth", "Seventh",
    "Eighth", "Ninth", "Tenth", "Eleventh", "Twelfth", "Thirteenth",
    "Fourteenth", "Fifteenth", "Sixteenth", "Seventeenth", "Eighteenth",
    "Nineteenth", "Twentieth", "Twenty-First", "Twenty-Second",
    "Twenty-Third", "Twenty-Fourth", "Twenty-Fifth", "Twenty-Sixth",
    "Twenty-Seventh", "Twenty-Eighth", "Twenty-Ninth", "Thirtieth",
    "Thirty-First", "Thirty-Second", "Thirty-Third", "Thirty-Fourth">>

ordinal(n) ==
  IF n >= 1 /\ n <= Len(ordinalWords) THEN ordinalWords[n]
  ELSE ToString(n) \o "th"

mf_firstSundayOfAdvent(year) == sundayOnOrAfter(utcNoonDate(year, 10, 27))

mf_christTheKing(year) == addDaysUTC(mf_firstSundayOfAdvent(year), -7)

\* a mutation of baptismOfTheLord: Jan 6 itself is taken when it is a Sunday
baptismOfTheLord_onOrAfter(year) ==
  nextWeekday(utcNoonDate(year, 0, 6), 0, TRUE)

baptismOfTheLord(year) == nextWeekday(utcNoonDate(year, 0, 6), 0, FALSE)

\* a mutation of ordinaryTimeBeginsPart1: Ordinary Time begins on the day of
\* Baptism of the Lord
ordinaryTimeBeginsPart1_sameDay(year) ==
  addDaysUTC(baptismOfTheLord(year), 0)

ordinaryTimeBeginsPart1(year) == addDaysUTC(baptismOfTheLord(year), 1)

ascensionThursday(easter) == addDaysUTC(easter, 39)
ascensionSunday(easter) == addDaysUTC(easter, 42)
corpusChristiThursday(easter) == addDaysUTC(easter, 60)
corpusChristiSunday(easter) == addDaysUTC(easter, 63)
sacredHeart(easter) == addDaysUTC(easter, 68)
immaculateHeart(easter) == addDaysUTC(easter, 69)

\* the Sunday number given to the Sunday s of the first span
otPart1SundayNum(s, ot1Monday) ==
  (1 + diffDaysUTC(s, ot1Monday) \div 7) + 1

\* the loop over the Sundays of the first span of Ordinary Time, from s on
RECURSIVE otPart1Loop(_, _, _)
otPart1Loop(s, otPart1LastSunday, ot1Monday) ==
  IF ~(s <= otPart1LastSunday) THEN << >>
  ELSE LET sundayNum == otPart1SundayNum(s, ot1Monday) IN
       <<Push(s, Celebration(
                   "ordinary_time_" \o ToString(sundayNum) \o "_sunday_part1",
                   ordinal(sundayNum) \o " Sunday in Ordinary Time",
                   "Sunday", "Green", "Ordinary Time"))>>
       \o otPart1Loop(addDaysUTC(s, 7), otPart1LastSunday, ot1Monday)

\* a mutation of ot2BaseWeekOf: the second span restarts from the first week
ot2BaseWeekOf_restart(dayBeforeAsh, ot1Monday) ==
  1 + diffDaysUTC(ot1Monday, ot1Monday) \div 7

\* ot2BaseWeek: the week after lastOTWeekBeforeLent
ot2BaseWeekOf(dayBeforeAsh, ot1Monday) ==
  (1 + diffDaysUTC(dayBeforeAsh, ot1Monday) \div 7) + 1

\* a mutation of otPart2Loop: the cap is 33, so the loop stops before a
\* thirty-fourth Sunday
RECURSIVE otPart2Loop_cap33(_, _, _, _)
otPart2Loop_cap33(s, ot2LastSunday, ot2Monday, ot2BaseWeek) ==
  IF ~(s <= ot2LastSunday) THEN << >>
  ELSE LET week == ot2BaseWeek + diffDaysUTC(s, ot2Monday) \div 7
           sundayNum == week + 1
       IN  IF sundayNum > 33 THEN << >>
           ELSE <<Push(s, Celebration(
                     "ordinary_time_" \o ToString(sundayNum) \o "_sunday_part2",
                     ordinal(sundayNum) \o " Sunday in Ordinary Time",
                     "Sunday", "Green", "Ordinary Time"))>>
                \o otPart2Loop_cap33(addDaysUTC(s, 7), ot2LastSunday,
                                     ot2Monday, ot2BaseWeek)

\* the loop over the Sundays of the second span, from s on; it stops at the
\* first Sunday whose number exceeds 34
RECURSIVE otPart2Loop(_, _, _, _)
otPart2Loop(s, ot2LastSunday, ot2Monday, ot2BaseWeek) ==
  IF ~(s <= ot2LastSunday) THEN << >>
  ELSE LET week == ot2BaseWeek + diffDaysUTC(s, ot2Monday) \div 7
           sundayNum == week + 1
       IN  IF sundayNum > 34 THEN << >>
           ELSE <<Push(s, Celebration(
                     "ordinary_time_" \o ToString(sundayNum) \o "_sunday_part2",
                     ordinal(sundayNum) \o " Sunday in Ordinary Time",
                     "Sunday", "Green", "Ordinary Time"))>>
                \o otPart2Loop(addDaysUTC(s, 7), ot2LastSunday, ot2Monday,
                               ot2BaseWeek)

\* the calls of push made by computeMovableFeastsForYear, in order
movableFeastPushes(year) ==
  LET easter == computeEasterSunday(year)
      a1 == mf_firstSundayOfAdvent(year)
      christmas == utcNoonDate(year, 11, 25)
      baptism == baptismOfTheLord(year)
      ashWednesday == addDaysUTC(easter, -46)
      holyThursday == addDaysUTC(easter, -3)
      goodFriday == addDaysUTC(easter, -2)
      holySaturday == addDaysUTC(easter, -1)
      pentecost == addDaysUTC(easter, 49)
      ot1Monday == ordinaryTimeBeginsPart1(year)
      otPart1FirstSunday == sundayOnOrAfter(ot1Monday)
      dayBeforeAsh == addDaysUTC(ashWednesday, -1)
      otPart1LastSunday == sundayOnOrBefore(dayBeforeAsh)
      lent1 == addDaysUTC(ashWednesday, 4)
      laetare == addDaysUTC(lent1, 21)
      palmSunday == addDaysUTC(easter, -7)
      ot2Monday == addDaysUTC(pentecost, 1)
      ot2BaseWeek == ot2BaseWeekOf(dayBeforeAsh, ot1Monday)
      ot2FirstSunday == sundayOnOrAfter(ot2Monday)
      ot2LastSunday == mf_christTheKing(year)
      trinity == addDaysUTC(easter, 56)
  IN
  <<Push(a1, Marker("season_advent_begins", "Season begins: Advent",
                    "Sunday", "Purple", "Advent")),
    Push(christmas, Marker("season_christmas_begins",
                    "Season begins: Christmas",
                    "Solemnity", "White", "Christmas")),
    Push(ordinaryTimeBeginsPart1(year),
         Marker("season_ordinary_time_begins_part1",
                "Season begins: Ordinary Time (after Baptism)",
                "Weekday", "Green", "Ordinary Time")),
    Push(ashWednesday, Marker("season_lent_begins",
                    "Season begins: Lent (Ash Wednesday)",
                    "Weekday", "Purple", "Lent")),
    Push(easter, Marker("season_easter_begins",
                    "Season begins: Easter (Easter Sunday)",
                    "Solemnity", "White", "Easter")),
    Push(addDaysUTC(pentecost, 1),
         Marker("season_ordinary_time_begins_part2",
                "Season resumes: Ordinary Time (after Pentecost)",
                "Weekday", "Green", "Ordinary Time")),
    Push(utcNoonDate(year, 0, 1),
         Celebration("mary_mother_of_god", "Mary, the Holy Mother of God",
                     "Solemnity", "White", "Christmas")),
    Push(utcNoonDate(year, 0, 6),
         Celebration("epiphany", "Epiphany of the Lord",
                     "Solemnity", "White", "Christmas")),
    Push(baptism,
         Celebration("baptism_of_the_lord", "Baptism of the Lord",
                     "Feast", "White", "Christmas"))>>
  \o otPart1Loop(otPart1FirstSunday, otPart1LastSunday, ot1Monday)
  \o
  <<Push(ashWednesday,
         Celebration("ash_wednesday", "Ash Wednesday",
                     "Weekday", "Purple", "Lent")),
    Push(lent1,
         Celebration("lent_1", "First Sunday of Lent",
                     "Sunday", "Purple", "Lent")),
    Push(addDaysUTC(lent1, 7),
         Celebration("lent_2", "Second Sunday of Lent",
                     "Sunday", "Purple", "Lent")),
    Push(addDaysUTC(lent1, 14),
         Celebration("lent_3", "Third Sunday of Lent",
                     "Sunday", "Purple", "Lent")),
    Push(laetare,
         Celebration("lent_4_laetare",
                     "Fourth Sunday of Lent (Laetare Sunday)",
                     "Sunday", "Rose", "Lent")),
    Push(addDaysUTC(lent1, 28),
         Celebration("lent_5", "Fifth Sunday of Lent",
                     "Sunday", "Purple", "Lent")),
    Push(palmSunday,
         Celebration("palm_sunday", "Palm Sunday of the Passion of the Lord",
                     "Sunday", "Red", "Lent")),
    Push(holyThursday,
         Celebration("holy_thursday",
                     "Holy Thursday (Evening Mass of the Lord's Supper)",
                     "Triduum", "White", "Easter")),
    Push(goodFriday,
         Celebration("good_friday", "Good Friday of the Passion of the Lord",
                     "Triduum", "Red", "Easter")),
    Push(holySaturday,
         Celebration("holy_saturday", "Holy Saturday",
                     "Triduum", "Purple", "Easter")),
    Push(easter,
         Celebration("easter_sunday",
                     "Easter Sunday of the Resurrection of the Lord",
                     "Solemnity", "White", "Easter"))>>
  \o
  [i \in 1 .. 6 |->
     Push(addDaysUTC(easter, i),
          Celebration("easter_octave_day_" \o ToString(i),
                      "Easter Octave (Day " \o ToString(i + 1) \o ")",
                      "Solemnity", "White", "Easter"))]
  \o
  <<Push(addDaysUTC(easter, 7),
         Celebration("divine_mercy_sunday",
                     "Second Sunday of Easter (Divine Mercy Sunday)",
                     "Sunday", "White", "Easter")),
    Push(ascensionThursday(easter),
         Celebration("ascension_thursday", "Ascension of the Lord (Thursday)",
                     "Solemnity", "White", "Easter")),
    Push(ascensionSunday(easter),
         Celebration("ascension_sunday",
                     "Ascension of the Lord (Transferred to Sunday)",
                     "Solemnity", "White", "Easter")),
    Push(pentecost,
         Celebration("pentecost", "Pentecost Sunday",
                     "Solemnity", "Red", "Easter"))>>
  \o otPart2Loop(ot2FirstSunday, ot2LastSunday, ot2Monday, ot2BaseWeek)
  \o
  <<Push(trinity,
         Celebration("trinity_sunday", "Trinity Sunday",
                     "Solemnity", "White", "Ordinary Time")),
    Push(corpusChristiThursday(easter),
         Celebration("corpus_christi_thursday",
           "The Most Holy Body and Blood of Christ (Corpus Christi) - Thursday",
           "Solemnity", "White", "Ordinary Time")),
    Push(corpusChristiSunday(easter),
         Celebration("corpus_christi_sunday",
           "The Most Holy Body and Blood of Christ (Corpus Christi) - Sunday",
           "Solemnity", "White", "Ordinary Time")),
    Push(sacredHeart(easter),
         Celebration("sacred_heart", "Most Sacred Heart of Jesus",
                     "Solemnity", "White", "Ordinary Time")),
    Push(immaculateHeart(easter),
         Celebration("immaculate_heart", "Immaculate Heart of Mary",
                     "Memorial", "White", "Ordinary Time")),
    Push(a1,
         Celebration("advent_1", "First Sunday of Advent",
                     "Sunday", "Purple", "Advent")),
    Push(addDaysUTC(a1, 7),
         Celebration("advent_2", "Second Sunday of Advent",
                     "Sunday", "Purple", "Advent")),
    Push(addDaysUTC(a1, 14),
         Celebration("advent_3_gaudete",
                     "Third Sunday of Advent (Gaudete Sunday)",
                     "Sunday", "Rose", "Advent")),
    Push(addDaysUTC(a1, 21),
         Celebration("advent_4", "Fourth Sunday of Advent",
                     "Sunday", "Purple", "Advent")),
    Push(mf_christTheKing(year),
         Celebration("christ_king",
           "Our Lord Jesus Christ, King of the Universe (Christ the King)",
           "Solemnity", "White", "Ordinary Time"))>>

\* the observances pushed under key k, in the order of the pushes
RECURSIVE pushedUnder(_, _)
pushedUnder(pushes, k) ==
  IF pushes = << >> THEN << >>
  ELSE IF toYmd(Head(pushes).date) = k
       THEN <<Head(pushes).obs>> \o pushedUnder(Tail(pushes), k)
       ELSE pushedUnder(Tail(pushes), k)

\* the map out after the pushes: key toYmd(date), entries in push order
pushAll(pushes) ==
  [k \in {toYmd(pushes[i].date) : i \in 1 .. Len(pushes)} |->
     pushedUnder(pushes, k)]

computeMovableFeastsForYear(year) ==
  normalize(pushAll(movableFeastPushes(year)))

\* ------------------------------------------------------------------------
\* utils/movableFeastsRules.ts, the list MOVABLE_FEAST_RULES
\* ------------------------------------------------------------------------
mfr_addDaysUTC(date, days) == setUTCDate(date, getUTCDate(date) + days)

utcNoon(year, month0, day) == DateUTC(year, month0, day, 12)

\* the ids of MOVABLE_FEAST_RULES, in the order of the list
MovableFeastRuleIds ==
  <<"baptism_of_the_lord", "easter_sunday", "ash_wednesday", "palm_sunday",
    "holy_thursday", "good_friday", "holy_saturday", "pentecost",
    "trinity_sunday", "corpus_christi">>

\* computeDate of the rule baptism_of_the_lord
baptismRuleDate(year) ==
  LET jan6 == utcNoon(year, 0, 6)
      dow == getUTCDay(jan6)
      offset == IF dow = 0 THEN 7 ELSE 7 - dow
  IN  mfr_addDaysUTC(jan6, offset)

\* rule.computeDate(year) of the rule of MOVABLE_FEAST_RULES with the id
ruleComputeDate(id, year) ==
  CASE id = "baptism_of_the_lord" -> baptismRuleDate(year)
    [] id = "easter_sunday" -> computeEasterSunday(year)
    [] id = "ash_wednesday" -> mfr_addDaysUTC(computeEasterSunday(year), -46)
    [] id = "palm_sunday" -> mfr_addDaysUTC(computeEasterSunday(year), -7)
    [] id = "holy_thursday" -> mfr_addDaysUTC(computeEasterSunday(year), -3)
    [] id = "good_friday" -> mfr_addDaysUTC(computeEasterSunday(year), -2)
    [] id = "holy_saturday" -> mfr_addDaysUTC(computeEasterSunday(year), -1)
    [] id = "pentecost" -> mfr_addDaysUTC(computeEasterSunday(year), 49)
    [] id = "trinity_sunday" -> mfr_addDaysUTC(computeEasterSunday(year), 56)
    [] id = "corpus_christi" -> mfr_addDaysUTC(computeEasterSunday(year), 60)

\* ------------------------------------------------------------------------
\* The batch builders: resolveNovenasForYear (utils/novenasRules.ts),
\* getNovenasForYear (data/calendar.ts) and buildCalendarForYear (the older
\* data/calendar.ts).  A batch definition is titled by its id.
\* ------------------------------------------------------------------------
Instances(list) == [kind |-> "instances", list |-> list, msg |-> ""]
BatchError(m) == [kind |-> "error", list |-> << >>, msg |-> m]

\* the titles of the batch definitions in the order of localeCompare
BatchTitles == <<"a", "b", "c", "d", "e">>

titleCompare(a, b) ==
  LET ia == CHOOSE i \in 1 .. Len(BatchTitles) : BatchTitles[i] = a
      ib == CHOOSE i \in 1 .. Len(BatchTitles) : BatchTitles[i] = b
  IN  ia - ib

\* the comparator of resolveNovenasForYear: start date, then title
compareInstances(a, b) ==
  IF a.startDate - b.startDate # 0 THEN a.startDate - b.startDate
  ELSE titleCompare(a.id, b.id)

RECURSIVE insertInstance(_, _)
insertInstance(sorted, x) ==
  IF sorted = << >> THEN <<x>>
  ELSE IF compareInstances(x, Head(sorted)) < 0 THEN <<x>> \o sorted
  ELSE <<Head(sorted)>> \o insertInstance(Tail(sorted), x)

\* out.sort(...) of resolveNovenasForYear
RECURSIVE sortInstances(_)
sortInstances(list) ==
  IF list = << >> THEN << >>
  ELSE insertInstance(sortInstances(SubSeq(list, 1, Len(list) - 1)),
                      list[Len(list)])

\* the loop of resolveNovenasForYear over the definitions left, acc being
\* the instances pushed so far: the error of an entry leaves the function
RECURSIVE pushResolved(_, _, _, _)

\* one pass of the loop: r is what resolveNovenaForYear made of the first
\* definition
pushOne(novenas, year, anchors, acc, r) ==
  IF r.kind = "error" THEN BatchError(r.msg)
  ELSE pushResolved(Tail(novenas), year, anchors, Append(acc, r))

pushResolved(novenas, year, anchors, acc) ==
  IF novenas = << >> THEN Instances(acc)
  ELSE pushOne(novenas, year, anchors, acc,
               resolveNovenaForYear(Head(novenas), year, anchors))

\* the sort that ends resolveNovenasForYear
sortedBatch(pushed) ==
  IF pushed.kind = "error" THEN pushed
  ELSE Instances(sortInstances(pushed.list))

resolveNovenasForYear(novenas, year, anchors) ==
  sortedBatch(pushResolved(novenas, year, anchors, << >>))

\* getNovenasForYear with the definitions of NOVENAS given
getNovenasForYear(novenas, year) ==
  resolveNovenasForYear(novenas, year, buildNovenaAnchorsForYear(year))

\* isoDateOnly(d), as the triple year, month, day
isoDateOnly(d) == toYmd(d)

CalendarEntry(e, r) ==
  [id |-> e.id, startDate |-> isoDateOnly(r.startDate),
   feastDate |-> isoDateOnly(r.feastDate)]

\* the comparator of buildCalendarForYear: start date string, then title
compareEntries(a, b) ==
  LET da == DaysFromCivil(a.startDate.y, a.startDate.m, a.startDate.d)
      db == DaysFromCivil(b.startDate.y, b.startDate.m, b.startDate.d)
  IN  IF da # db THEN da - db ELSE titleCompare(a.id, b.id)

RECURSIVE insertEntry(_, _)
insertEntry(sorted, x) ==
  IF sorted = << >> THEN <<x>>
  ELSE IF compareEntries(x, Head(sorted)) < 0 THEN <<x>> \o sorted
  ELSE <<Head(sorted)>> \o insertEntry(Tail(sorted), x)

RECURSIVE sortEntries(_)
sortEntries(list) ==
  IF list = << >> THEN << >>
  ELSE insertEntry(sortEntries(SubSeq(list, 1, Len(list) - 1)),
                   list[Len(list)])

\* idx.map(...) of buildCalendarForYear over the entries left: the error of
\* an entry leaves the function
RECURSIVE mapEntries(_, _, _)

\* one callback of idx.map: r is what computeNovenaDatesForYearStrict made
\* of the first entry
mapEntry(idx, year, acc, r) ==
  IF r.kind = "error" THEN BatchError(r.msg)
  ELSE mapEntries(Tail(idx), year, Append(acc, CalendarEntry(Head(idx), r)))

mapEntries(idx, year, acc) ==
  IF idx = << >> THEN Instances(acc)
  ELSE mapEntry(idx, year, acc,
                computeNovenaDatesForYearStrict(Head(idx), year))

sortedCalendar(mapped) ==
  IF mapped.kind = "error" THEN mapped
  ELSE Instances(sortEntries(mapped.list))

\* buildCalendarForYear with the entries of the index given
buildCalendarForYear(idx, year) == sortedCalendar(mapEntries(idx, year, << >>))

\* ------------------------------------------------------------------------
\* Inputs
\* ------------------------------------------------------------------------
Fixed(m, d) == [type |-> "fixed", month |-> m, day |-> d]
Relative(a, off) == [type |-> "relative", anchor |-> a, offsetDays |-> off]
RelativeW(a, off, wd) ==
  [type |-> "relative", anchor |-> a, offsetDays |-> off, weekday |-> wd]
RelativeWP(a, off, wd, pol) ==
  [type |-> "relative", anchor |-> a, offsetDays |-> off, weekday |-> wd,
   weekdayPolicy |-> pol]
NthWeekdayAfter(a, wd, n) ==
  [type |-> "nth_weekday_after", anchor |-> a, weekday |-> wd, n |-> n]
BeforeFeast(k) == [type |-> "before_feast", daysBefore |-> k]
BeforeFeastOf(k, a) ==
  [type |-> "before_feast", daysBefore |-> k, anchor |-> a]
Raw == [type |-> "raw", text |-> "Every First Friday"]
\* the record rec with one half added to the numeric fields named in fields
PlusHalf(rec, fields) == [frac |-> fields] @@ rec

RuleYears == {1900, 2000, 2024, 2025, 2026}
EasterYears == 1583 .. 4099
CalendarYears == 1900 .. 2100

\* anchor keys the rules refer to: keys of the built table, a key the caller
\* adds ("feast"), a key no table has, and the empty key
RuleAnchors == {"easter", "christmas", "feast", "nonexistent_key"}

\* the tables a caller passes for a year: the built one, alone or with a
\* "feast" entry on June 29 (at noon, at midnight, or an Invalid Date)
AnchorTables(y) ==
  {buildNovenaAnchorsForYear(y)} \cup
  {[feast |-> v] @@ buildNovenaAnchorsForYear(y) :
     v \in {utcNoonDate(y, 5, 29), toUTCDate(y, 6, 29), NaN}}

FixedRules ==
  {Fixed(6, 29), Fixed(6, 20), Fixed(6, 21), Fixed(1, 3), Fixed(12, 25),
   Fixed(12, 26), Fixed(2, 30), Fixed(13, 1), Fixed(0, 5), Fixed(1, 32),
   Fixed(4, 0)}
AnchorRules == {AnchorRule(a) : a \in RuleAnchors}
RelativeRules ==
  {Relative(a, off) : a \in RuleAnchors, off \in {-10, 0, 19}} \cup
  {RelativeW(a, off, wd) :
     a \in RuleAnchors, off \in {-10, 0, 19}, wd \in {0, 5, 7}} \cup
  {RelativeWP(a, off, wd, pol) :
     a \in RuleAnchors, off \in {-10, 0, 19}, wd \in {0, 5, 7},
     pol \in {"onOrAfter", "onOrBefore"}}
NthRules ==
  {NthWeekdayAfter(a, wd, n) :
     a \in RuleAnchors, wd \in -1 .. 7, n \in 0 .. MaxN}
BeforeFeastRules ==
  {BeforeFeast(k) : k \in {0, 1, 9}} \cup
  {BeforeFeastOf(k, a) : k \in {0, 1, 9}, a \in RuleAnchors \cup {""}}
\* rules with a parameter that is not a whole number: n = 1.5 and 0.5,
\* weekday = 5.5, daysBefore = 9.5
FractionalRules ==
  {PlusHalf(NthWeekdayAfter(a, 5, n), {"n"}) : a \in RuleAnchors, n \in 0 .. 1}
  \cup {PlusHalf(NthWeekdayAfter("easter", 5, 1), {"weekday"}),
        PlusHalf(RelativeW("easter", 0, 5), {"weekday"}),
        PlusHalf(RelativeWP("feast", 0, 5, "onOrBefore"), {"weekday"}),
        PlusHalf(BeforeFeastOf(9, "easter"), {"daysBefore"})}
Rules ==
  FixedRules \cup AnchorRules \cup RelativeRules \cup NthRules \cup
  BeforeFeastRules \cup {Raw}

\* the feast rule handed to resolveRule as context
Ctxs ==
  {NoCtx, FeastCtx(AnchorRule("feast")), FeastCtx(AnchorRule("easter")),
   FeastCtx(Fixed(6, 29)), FeastCtx(Relative("feast", 0)),
   FeastCtx(NthWeekdayAfter("feast", 0, 1)),
   FeastCtx(BeforeFeastOf(1, "feast"))}

\* novena definitions
FeastRules ==
  {Fixed(6, 29), Fixed(1, 3), Fixed(2, 30), Fixed(1, 32),
   AnchorRule("feast"), AnchorRule("easter"), AnchorRule("nonexistent_key"),
   Relative("easter", 19), RelativeW("easter", 19, 5),
   NthWeekdayAfter("easter", 5, 2), BeforeFeastOf(9, "feast"), Raw}
StartRules ==
  {Fixed(6, 20), Fixed(6, 21), Fixed(12, 25), Fixed(12, 26), Fixed(7, 4),
   Fixed(13, 1),
   AnchorRule("feast"), AnchorRule("palm_sunday"),
   AnchorRule("nonexistent_key"),
   Relative("easter", -8), Relative("easter", 11), Relative("feast", -8),
   RelativeWP("feast", -3, 6, "onOrBefore"), RelativeW("easter", 0, 7),
   NthWeekdayAfter("easter", 4, 1), NthWeekdayAfter("easter", 4, 0),
   BeforeFeast(9), BeforeFeast(10), BeforeFeast(1), BeforeFeast(0),
   BeforeFeastOf(9, "feast"), BeforeFeastOf(9, "christmas"), Raw}
Durations == {0, 1, 9, 10, 4000, 4001}

NovenaDefs ==
  {[id |-> "n", feastRule |-> f] : f \in FeastRules} \cup
  {[id |-> "n", feastRule |-> f, durationDays |-> d] :
     f \in FeastRules, d \in Durations} \cup
  {[id |-> "n", feastRule |-> f, startRule |-> s] :
     f \in FeastRules, s \in StartRules} \cup
  {[id |-> "n", feastRule |-> f, startRule |-> s, durationDays |-> d] :
     f \in FeastRules, s \in StartRules, d \in Durations} \cup
  {PlusHalf([id |-> "n", feastRule |-> f, durationDays |-> d],
            {"durationDays"}) :
     f \in {Fixed(6, 29), AnchorRule("easter")}, d \in {0, 9, 4000}} \cup
  {[id |-> "n", feastRule |-> f, startRule |-> s] :
     f \in {Fixed(6, 29), AnchorRule("feast")}, s \in FractionalRules} \cup
  {[id |-> "n", feastRule |-> f] : f \in FractionalRules}

\* entries of the older index: both rules are always present; the start
\* rule "one day after the feast" is after the feast in every year
IndexEntries ==
  {[id |-> "n", feastRule |-> f, startRule |-> s] :
     f \in FeastRules, s \in StartRules \cup {BeforeFeast(-1)}}

\* definitions handed to the batch builders: three that resolve and two that
\* fail (an anchor no table has, a raw rule)
BatchDefs ==
  {[id |-> "a", feastRule |-> Fixed(6, 29), startRule |-> Fixed(6, 21)],
   [id |-> "b", feastRule |-> AnchorRule("easter"),
    startRule |-> Relative("easter", -8)],
   [id |-> "c", feastRule |-> AnchorRule("nonexistent_key"),
    startRule |-> Fixed(6, 21)],
   [id |-> "d", feastRule |-> Raw, startRule |-> Raw],
   [id |-> "e", feastRule |-> Fixed(1, 3), startRule |-> Fixed(12, 26)]}

\* the lists of at most MaxBatch batch definitions
Batches == UNION {[1 .. n -> BatchDefs] : n \in 0 .. MaxBatch}

\* ------------------------------------------------------------------------
\* State: the last call made, its arguments and what it returned
\* ------------------------------------------------------------------------
\* anchors is the table handed to the call, anchorsNow the same table object
\* as the call left it
VARIABLES op, year, arg, ctx, anchors, anchorsNow, out

\* State of the saint enrichment script while one of its asynchronous
\* functions runs: pc is the position of each async function instance;
\* nextI, results and workerIdx are the i, results and (per worker) idx of
\* runPool, called counts the calls of fn per item index; lastRequestAt is
\* the rate limiter's, now is Date.now(), wakeAt the time each sleeping
\* caller asked to be woken at, starts the times at which fetch was called;
\* attempt and lastErr are those of fetchWithRetries, responses what its
\* requests ended with
VARIABLES pc, nextI, results, workerIdx, called, lastRequestAt, now, wakeAt,
          starts, attempt, lastErr, responses

scriptVars ==
  <<pc, nextI, results, workerIdx, called, lastRequestAt, now, wakeAt, starts,
    attempt, lastErr, responses>>

vars ==
  <<op, year, arg, ctx, anchors, anchorsNow, out, pc, nextI, results,
    workerIdx, called, lastRequestAt, now, wakeAt, starts, attempt, lastErr,
    responses>>

\* no asynchronous function of the script is running
ScriptsIdle ==
  /\ pc = << >>
  /\ nextI = 0
  /\ results = << >>
  /\ workerIdx = << >>
  /\ called = << >>
  /\ lastRequestAt = 0
  /\ now = 0
  /\ wakeAt = << >>
  /\ starts = << >>
  /\ attempt = 0
  /\ lastErr = ""
  /\ responses = << >>

NoTable == [k \in {} |-> 0]
None == [kind |-> "none"]

Init ==
  /\ op = "none"
  /\ year = 0
  /\ arg = None
  /\ ctx = None
  /\ anchors = NoTable
  /\ anchorsNow = NoTable
  /\ out = None
  /\ ScriptsIdle

\* resolveRule(rule, y, tbl, c)
ResolveRule ==
  /\ op = "none"
  /\ \E y \in RuleYears, r \in Rules \cup FractionalRules :
     \E tbl \in AnchorTables(y),
        c \in IF r.type = "before_feast" THEN Ctxs ELSE {NoCtx} :
       /\ op' = "resolveRule"
       /\ year' = y
       /\ arg' = r
       /\ ctx' = c
       /\ anchors' = tbl
       /\ anchorsNow' = anchorsAfterCall(tbl)
       /\ out' = resolveRule(r, y, tbl, c)
  /\ UNCHANGED scriptVars

\* resolveNovenaForYear(n, y, tbl)
ResolveNovenaForYear ==
  /\ op = "none"
  /\ \E y \in RuleYears, n \in NovenaDefs :
     \E tbl \in AnchorTables(y) :
       /\ op' = "resolveNovenaForYear"
       /\ year' = y
       /\ arg' = n
       /\ ctx' = None
       /\ anchors' = tbl
       /\ anchorsNow' = anchorsAfterCall(tbl)
       /\ out' = resolveNovenaForYear(n, y, tbl)
  /\ UNCHANGED scriptVars

\* computeDateForRule(rule, y, c) of the older engine
ComputeDateForRule ==
  /\ op = "none"
  /\ \E y \in RuleYears, r \in Rules :
     \E c \in IF r.type = "before_feast"
              THEN {NoFeastDate, FeastDateCtx(utcDate(y, 6, 29))}
              ELSE {NoFeastDate} :
       /\ op' = "computeDateForRule"
       /\ year' = y
       /\ arg' = r
       /\ ctx' = c
       /\ anchors' = NoTable
       /\ anchorsNow' = NoTable
       /\ out' = computeDateForRule(r, y, c)
  /\ UNCHANGED scriptVars

\* computeNovenaDatesForYearStrict(entry, y) of the older engine
ComputeNovenaDatesForYearStrict ==
  /\ op = "none"
  /\ \E y \in RuleYears, e \in IndexEntries :
       /\ op' = "computeNovenaDatesForYearStrict"
       /\ year' = y
       /\ arg' = e
       /\ ctx' = None
       /\ anchors' = NoTable
       /\ anchorsNow' = NoTable
       /\ out' = computeNovenaDatesForYearStrict(e, y)
  /\ UNCHANGED scriptVars

\* computeEasterSunday(y), either copy
ComputeEasterSunday ==
  /\ op = "none"
  /\ \E y \in EasterYears, copy \in {"liturgicalEngine", "liturgicalDates"} :
       /\ op' = "computeEasterSunday"
       /\ year' = y
       /\ arg' = [kind |-> copy]
       /\ ctx' = None
       /\ anchors' = NoTable
       /\ anchorsNow' = NoTable
       /\ out' = Ok(IF copy = "liturgicalEngine" THEN computeEasterSunday(y)
                    ELSE ld_computeEasterSunday(y))
  /\ UNCHANGED scriptVars

\* buildNovenaAnchorsForYear(y)
BuildNovenaAnchorsForYear ==
  /\ op = "none"
  /\ \E y \in CalendarYears :
       /\ op' = "buildNovenaAnchorsForYear"
       /\ year' = y
       /\ arg' = None
       /\ ctx' = None
       /\ anchors' = NoTable
       /\ anchorsNow' = NoTable
       /\ out' = buildNovenaAnchorsForYear(y)
  /\ UNCHANGED scriptVars

\* buildMoveableMapForYear(y)
BuildMoveableMapForYear ==
  /\ op = "none"
  /\ \E y \in CalendarYears :
       /\ op' = "buildMoveableMapForYear"
       /\ year' = y
       /\ arg' = None
       /\ ctx' = None
       /\ anchors' = NoTable
       /\ anchorsNow' = NoTable
       /\ out' = buildMoveableMapForYear(y)
  /\ UNCHANGED scriptVars

\* computeAnchorDate(key, y) of the older engine
ComputeAnchorDate ==
  /\ op = "none"
  /\ \E y \in CalendarYears,
        key \in {"easter", "good_friday", "divine_mercy_sunday", "pentecost",
                 "ascension_thursday", "corpus_christi", "ash_wednesday",
                 "shrove_tuesday", "christmas", "mary_mother_of_god",
                 "holy_family", "palm_sunday", "nonexistent_key"} :
       /\ op' = "computeAnchorDate"
       /\ year' = y
       /\ arg' = [kind |-> key]
       /\ ctx' = None
       /\ anchors' = NoTable
       /\ anchorsNow' = NoTable
       /\ out' = computeAnchorDate(key, y)
  /\ UNCHANGED scriptVars

\* computeMovableFeastsForYear(y)
ComputeMovableFeastsForYear ==
  /\ op = "none"
  /\ \E y \in CalendarYears :
       /\ op' = "computeMovableFeastsForYear"
       /\ year' = y
       /\ arg' = None
       /\ ctx' = None
       /\ anchors' = NoTable
       /\ anchorsNow' = NoTable
       /\ out' = computeMovableFeastsForYear(y)
  /\ UNCHANGED scriptVars

\* rule.computeDate(y) for a rule of MOVABLE_FEAST_RULES
RuleComputeDate ==
  /\ op = "none"
  /\ \E y \in CalendarYears, i \in 1 .. Len(MovableFeastRuleIds) :
       /\ op' = "rule.computeDate"
       /\ year' = y
       /\ arg' = [kind |-> MovableFeastRuleIds[i]]
       /\ ctx' = None
       /\ anchors' = NoTable
       /\ anchorsNow' = NoTable
       /\ out' = Ok(ruleComputeDate(MovableFeastRuleIds[i], y))
  /\ UNCHANGED scriptVars

\* getNovenasForYear(y), NOVENAS being the list b
GetNovenasForYear ==
  /\ op = "none"
  /\ \E y \in RuleYears, b \in Batches :
       /\ op' = "getNovenasForYear"
       /\ year' = y
       /\ arg' = b
       /\ ctx' = None
       /\ anchors' = buildNovenaAnchorsForYear(y)
       /\ anchorsNow' = anchorsAfterCall(buildNovenaAnchorsForYear(y))
       /\ out' = getNovenasForYear(b, y)
  /\ UNCHANGED scriptVars

\* buildCalendarForYear(y) of the older data/calendar.ts, the index being
\* the list b
BuildCalendarForYear ==
  /\ op = "none"
  /\ \E y \in RuleYears, b \in Batches :
       /\ op' = "buildCalendarForYear"
       /\ year' = y
       /\ arg' = b
       /\ ctx' = None
       /\ anchors' = NoTable
       /\ anchorsNow' = NoTable
       /\ out' = buildCalendarForYear(b, y)
  /\ UNCHANGED scriptVars

Next ==
  \/ ComputeMovableFeastsForYear
  \/ GetNovenasForYear
  \/ BuildCalendarForYear
  \/ RuleComputeDate
  \/ ResolveRule
  \/ ResolveNovenaForYear
  \/ ComputeDateForRule
  \/ ComputeNovenaDatesForYearStrict
  \/ ComputeEasterSunday
  \/ BuildNovenaAnchorsForYear
  \/ BuildMoveableMapForYear
  \/ ComputeAnchorDate

Spec == Init /\ [][Next]_vars

\* a second call resolveRule(rule, y, tbl, c) with the arguments of the first
ResolveRuleAgain ==
  /\ op = "resolveRule"
  /\ op' = "resolveRule again"
  /\ out' = resolveRule(arg, year, anchorsNow, ctx)
  /\ anchorsNow' = anchorsAfterCall(anchorsNow)
  /\ UNCHANGED <<year, arg, ctx, anchors>>
  /\ UNCHANGED scriptVars

\* a second call resolveNovenaForYear(n, y, tbl) with the arguments of the
\* first
ResolveNovenaForYearAgain ==
  /\ op = "resolveNovenaForYear"
  /\ op' = "resolveNovenaForYear again"
  /\ out' = resolveNovenaForYear(arg, year, anchorsNow)
  /\ anchorsNow' = anchorsAfterCall(anchorsNow)
  /\ UNCHANGED <<year, arg, ctx, anchors>>
  /\ UNCHANGED scriptVars

NextTwice ==
  \/ ResolveRule
  \/ ResolveNovenaForYear
  \/ ResolveRuleAgain
  \/ ResolveNovenaForYearAgain

\* the rule engine called twice in a row on the same arguments
SpecTwice == Init /\ [][NextTwice]_vars

\* ------------------------------------------------------------------------
\* The nth_weekday_after case of resolveRule, one loop iteration per step
\* ------------------------------------------------------------------------
\* op is the position in the case; ctx holds the loop variables d and count
\* and the number of days examined so far
ScanRules ==
  NthRules \cup {r \in FractionalRules : r.type = "nth_weekday_after"}

\* let d = addDays(base, 1)
scanStart(base) == addDays(base, 1)

\* if (weekdayUTC(d) === target)
scanHit(d, target) == weekdayUTC(d) = target

\* a mutation of scanDone: the scan returns one match late
scanDone_oneMore(count, n) == count = n + 1

\* if (count === rule.n) return d
scanDone(count, n) == count = n

\* the two assertions before the loop hold
scanArgsValid(rule) ==
  /\ Number_isInteger(rule, "weekday") /\ clampWeekday(rule.weekday)
  /\ rule.n >= 1 /\ Number_isInteger(rule, "n")

\* what the case throws before its loop, base being what the inner
\* resolveRule call made of the anchor
scanError(rule, base) ==
  IF base.kind = "error" THEN base
  ELSE IF ~(Number_isInteger(rule, "weekday") /\ clampWeekday(rule.weekday))
  THEN Err("weekday must be 0..6")
  ELSE Err("nth_weekday_after.n must be integer >=1")

\* the case is entered and the inner resolveRule call on the anchor is made
InitScan ==
  /\ op = "nth_weekday_after: base"
  /\ year \in RuleYears
  /\ arg \in ScanRules
  /\ anchors \in AnchorTables(year)
  /\ ctx = [base |-> resolveRule(AnchorRule(arg.anchor), year, anchors, NoCtx)]
  /\ anchorsNow = anchors
  /\ out = None
  /\ ScriptsIdle

\* the anchor is missing or invalid, or an assertion fails: the case throws
\* before the loop
ScanThrow ==
  /\ op = "nth_weekday_after: base"
  /\ ctx.base.kind = "error" \/ ~scanArgsValid(arg)
  /\ op' = "nth_weekday_after: threw"
  /\ out' = scanError(arg, ctx.base)
  /\ UNCHANGED <<year, arg, ctx, anchors, anchorsNow>>
  /\ UNCHANGED scriptVars

\* the loop is entered
ScanEnter ==
  /\ op = "nth_weekday_after: base"
  /\ ctx.base.kind = "date" /\ scanArgsValid(arg)
  /\ op' = "nth_weekday_after: loop"
  /\ ctx' = [base |-> ctx.base, d |-> scanStart(ctx.base.t), count |-> 0,
             examined |-> 0]
  /\ UNCHANGED <<year, arg, anchors, anchorsNow, out>>
  /\ UNCHANGED scriptVars

\* an iteration whose day is not on the target weekday
ScanMiss ==
  /\ op = "nth_weekday_after: loop"
  /\ ~scanHit(ctx.d, arg.weekday)
  /\ ctx' = [ctx EXCEPT !.d = addDays(ctx.d, 1),
                        !.examined = ctx.examined + 1]
  /\ UNCHANGED <<op, year, arg, anchors, anchorsNow, out>>
  /\ UNCHANGED scriptVars

\* an iteration whose day is on the target weekday but is not the nth
ScanCount ==
  /\ op = "nth_weekday_after: loop"
  /\ scanHit(ctx.d, arg.weekday)
  /\ ~scanDone(ctx.count + 1, arg.n)
  /\ ctx' = [ctx EXCEPT !.d = addDays(ctx.d, 1), !.count = ctx.count + 1,
                        !.examined = ctx.examined + 1]
  /\ UNCHANGED <<op, year, arg, anchors, anchorsNow, out>>
  /\ UNCHANGED scriptVars

\* the iteration that returns
ScanReturn ==
  /\ op = "nth_weekday_after: loop"
  /\ scanHit(ctx.d, arg.weekday)
  /\ scanDone(ctx.count + 1, arg.n)
  /\ op' = "nth_weekday_after: returned"
  /\ ctx' = [ctx EXCEPT !.count = ctx.count + 1,
                        !.examined = ctx.examined + 1]
  /\ out' = Ok(ctx.d)
  /\ UNCHANGED <<year, arg, anchors, anchorsNow>>
  /\ UNCHANGED scriptVars

NextScan ==
  \/ ScanThrow
  \/ ScanEnter
  \/ ScanMiss
  \/ ScanCount
  \/ ScanReturn

\* the case runs on one thread and every step of it is taken in turn
SpecScan == InitScan /\ [][NextScan]_vars /\ WF_vars(NextScan)

\* ------------------------------------------------------------------------
\* The saint enrichment script: runPool, rateLimitedFetch, fetchWithRetries
\* ------------------------------------------------------------------------
\* An async function runs without interruption from one await to the next;
\* each action below is one such run.  op names the function under study, arg
\* holds its arguments (and the command-line settings it reads), out what it
\* returned or threw.

\* the variables of the rule engine calls that the script leaves alone
callVars == <<year, ctx, anchors, anchorsNow>>

\* the parts of the script state, one per function
poolVars == <<nextI, results, workerIdx, called>>
limiterVars == <<lastRequestAt, now, wakeAt, starts>>
retryVars == <<attempt, lastErr, responses>>

CallIdle ==
  /\ year = 0
  /\ ctx = None
  /\ anchors = NoTable
  /\ anchorsNow = NoTable
  /\ out = None

PoolIdle ==
  nextI = 0 /\ results = << >> /\ workerIdx = << >> /\ called = << >>
LimiterIdle ==
  lastRequestAt = 0 /\ now = 0 /\ wakeAt = << >> /\ starts = << >>
RetryIdle == attempt = 0 /\ lastErr = "" /\ responses = << >>

\* ---- runPool(items, workerCount, fn) ----
\* the items are numbered 0 .. arg.items - 1 and the result of fn(item, k) is
\* written k; fn is the callback of main, which catches what it throws

\* what runPool returns
Resolved(list) == [kind |-> "resolved", list |-> list, msg |-> ""]

\* a mutation of afterTake: the counter is bumped twice
afterTake_skip(n) == n + 2

\* i++ : the counter after an index was taken
afterTake(n) == n + 1

\* Array.from has run every worker up to its first await
AllStarted == \A w \in DOMAIN pc : pc[w] # "start"

\* the worker w may run: Array.from starts the workers in order, and a
\* worker that slept resumes when its timer fires
WorkerRuns(w) ==
  \/ pc[w] = "start" /\ \A v \in DOMAIN pc : v < w => pc[v] # "start"
  \/ pc[w] = "sleep" /\ AllStarted

InitPool ==
  /\ op = "runPool"
  /\ arg \in [items : 0 .. MaxItems, workerCount : 1 .. MaxWorkers]
  /\ CallIdle
  /\ pc = [w \in 1 .. arg.workerCount |-> "start"]
  /\ nextI = 0
  /\ results = << >>
  /\ workerIdx = [w \in 1 .. arg.workerCount |-> -1]
  /\ called = [k \in 0 .. arg.items - 1 |-> 0]
  /\ LimiterIdle
  /\ RetryIdle

\* a worker takes the next index and calls fn on it
WorkerCalls ==
  /\ op = "runPool"
  /\ \E w \in DOMAIN pc :
       /\ WorkerRuns(w)
       /\ ~(nextI >= arg.items)
       /\ workerIdx' = [workerIdx EXCEPT ![w] = nextI]
       /\ nextI' = afterTake(nextI)
       /\ called' = [called EXCEPT ![nextI] = called[nextI] + 1]
       /\ pc' = [pc EXCEPT ![w] = "fn"]
  /\ UNCHANGED <<op, arg, out, results>>
  /\ UNCHANGED <<callVars, limiterVars, retryVars>>

\* a worker takes an index past the end and leaves its loop
WorkerBreaks ==
  /\ op = "runPool"
  /\ \E w \in DOMAIN pc :
       /\ WorkerRuns(w)
       /\ nextI >= arg.items
       /\ workerIdx' = [workerIdx EXCEPT ![w] = nextI]
       /\ nextI' = afterTake(nextI)
       /\ pc' = [pc EXCEPT ![w] = "done"]
  /\ UNCHANGED <<op, arg, out, results, called>>
  /\ UNCHANGED <<callVars, limiterVars, retryVars>>

\* the call of fn a worker awaits resolves: the worker pushes the result and
\* sleeps
FnResolves ==
  /\ op = "runPool"
  /\ AllStarted
  /\ \E w \in DOMAIN pc :
       /\ pc[w] = "fn"
       /\ results' = Append(results, workerIdx[w])
       /\ pc' = [pc EXCEPT ![w] = "sleep"]
  /\ UNCHANGED <<op, arg, out, nextI, workerIdx, called>>
  /\ UNCHANGED <<callVars, limiterVars, retryVars>>

\* Promise.all(workers) resolves and runPool returns results
PoolReturns ==
  /\ op = "runPool"
  /\ out = None
  /\ \A w \in DOMAIN pc : pc[w] = "done"
  /\ out' = Resolved(results)
  /\ UNCHANGED <<op, arg, pc>>
  /\ UNCHANGED <<callVars, poolVars, limiterVars, retryVars>>

NextPool ==
  \/ WorkerCalls
  \/ WorkerBreaks
  \/ FnResolves
  \/ PoolReturns

SpecPool == InitPool /\ [][NextPool]_vars

\* ---- rateLimitedFetch(url, init) ----
\* arg.callers async callers (the pool's workers) call it again and again;
\* arg.minIntervalMs is --minIntervalMs
MIN_INTERVAL_MS == arg.minIntervalMs

\* const wait = lastRequestAt + MIN_INTERVAL_MS - now
waitFor(last, t) == last + MIN_INTERVAL_MS - t

\* the clock stops here
LastTick == 2 * MaxInterval + MaxRequests * MaxInterval

InitLimiter ==
  /\ op = "rateLimitedFetch"
  /\ arg \in [minIntervalMs : 0 .. MaxInterval, callers : 1 .. MaxCallers]
  /\ CallIdle
  /\ pc = [c \in 1 .. arg.callers |-> "idle"]
  /\ lastRequestAt = 0
  /\ now = 2 * MaxInterval
  /\ wakeAt = [c \in 1 .. arg.callers |-> 0]
  /\ starts = << >>
  /\ PoolIdle
  /\ RetryIdle

\* MIN_INTERVAL_MS is 0: fetch is called at once
FetchUnlimited ==
  /\ op = "rateLimitedFetch"
  /\ Len(starts) < MaxRequests
  /\ ~(MIN_INTERVAL_MS > 0)
  /\ \E c \in DOMAIN pc : pc[c] = "idle"
  /\ starts' = Append(starts, now)
  /\ UNCHANGED <<op, arg, out, pc, lastRequestAt, now, wakeAt>>
  /\ UNCHANGED <<callVars, poolVars, retryVars>>

\* a call that has no wait: lastRequestAt is set and fetch is called
FetchAtOnce ==
  /\ op = "rateLimitedFetch"
  /\ Len(starts) < MaxRequests
  /\ MIN_INTERVAL_MS > 0
  /\ \E c \in DOMAIN pc : pc[c] = "idle"
  /\ ~(waitFor(lastRequestAt, now) > 0)
  /\ lastRequestAt' = now
  /\ starts' = Append(starts, now)
  /\ UNCHANGED <<op, arg, out, pc, now, wakeAt>>
  /\ UNCHANGED <<callVars, poolVars, retryVars>>

\* a call that has to wait: it awaits sleep(wait)
CallerSleeps ==
  /\ op = "rateLimitedFetch"
  /\ Len(starts) < MaxRequests
  /\ MIN_INTERVAL_MS > 0
  /\ waitFor(lastRequestAt, now) > 0
  /\ \E c \in DOMAIN pc :
       /\ pc[c] = "idle"
       /\ wakeAt' = [wakeAt EXCEPT ![c] = now + waitFor(lastRequestAt, now)]
       /\ pc' = [pc EXCEPT ![c] = "sleep"]
  /\ UNCHANGED <<op, arg, out, lastRequestAt, now, starts>>
  /\ UNCHANGED <<callVars, poolVars, retryVars>>

\* the timer of a sleeping call fires, not before the time asked for:
\* lastRequestAt is set and fetch is called
CallerWakes ==
  /\ op = "rateLimitedFetch"
  /\ \E c \in DOMAIN pc :
       /\ pc[c] = "sleep"
       /\ now >= wakeAt[c]
       /\ pc' = [pc EXCEPT ![c] = "idle"]
  /\ lastRequestAt' = now
  /\ starts' = Append(starts, now)
  /\ UNCHANGED <<op, arg, out, now, wakeAt>>
  /\ UNCHANGED <<callVars, poolVars, retryVars>>

\* a millisecond passes
Tick ==
  /\ op = "rateLimitedFetch"
  /\ now < LastTick
  /\ now' = now + 1
  /\ UNCHANGED <<op, arg, out, pc, lastRequestAt, wakeAt, starts>>
  /\ UNCHANGED <<callVars, poolVars, retryVars>>

NextLimiter ==
  \/ FetchUnlimited
  \/ FetchAtOnce
  \/ CallerSleeps
  \/ CallerWakes
  \/ Tick

SpecLimiter == InitLimiter /\ [][NextLimiter]_vars

\* ---- fetchWithRetries(url, init) ----
\* arg.maxRetries is --maxRetries; a request ends with an HTTP status, or
\* with 0 when rateLimitedFetch throws
MAX_RETRIES == arg.maxRetries

Statuses == {200, 204, 404, 429, 500, 501, 502, 503, 504}
Thrown == 0

\* res.ok
isOk(status) == status \in 200 .. 299

\* [429, 500, 502, 503, 504].includes(res.status)
retryable(status) == status \in {429, 500, 502, 503, 504}

\* what fetchWithRetries returns, and what it throws
Response(status) == [kind |-> "response", status |-> status, msg |-> ""]
ThrownError(m) == [kind |-> "error", status |-> 0, msg |-> m]

\* new Error(`HTTP ${res.status} ${res.statusText}`)
httpError(status) == "HTTP " \o ToString(status)

\* a mutation of retryAllowed: the last retry is not made
retryAllowed_exclusive(n) == n < MAX_RETRIES

\* while (attempt <= MAX_RETRIES)
retryAllowed(n) == n <= MAX_RETRIES

InitRetry ==
  /\ op = "fetchWithRetries"
  /\ arg \in [maxRetries : -1 .. MaxRetries]
  /\ CallIdle
  /\ pc = <<"loop">>
  /\ attempt = 0
  /\ lastErr = ""
  /\ responses = << >>
  /\ PoolIdle
  /\ LimiterIdle

\* the request ends with an ok response, which is returned
RequestOk ==
  /\ op = "fetchWithRetries"
  /\ pc = <<"loop">>
  /\ retryAllowed(attempt)
  /\ \E s \in Statuses :
       /\ isOk(s)
       /\ responses' = Append(responses, s)
       /\ out' = Response(s)
  /\ pc' = <<"returned">>
  /\ UNCHANGED <<op, arg, attempt, lastErr>>
  /\ UNCHANGED <<callVars, poolVars, limiterVars>>

\* the request ends with a response that is not ok and not retryable, which
\* is returned
RequestNotRetryable ==
  /\ op = "fetchWithRetries"
  /\ pc = <<"loop">>
  /\ retryAllowed(attempt)
  /\ \E s \in Statuses :
       /\ ~isOk(s)
       /\ ~retryable(s)
       /\ responses' = Append(responses, s)
       /\ out' = Response(s)
  /\ pc' = <<"returned">>
  /\ UNCHANGED <<op, arg, attempt, lastErr>>
  /\ UNCHANGED <<callVars, poolVars, limiterVars>>

\* the request ends with a retryable status: the error is kept and the
\* backoff sleep begins
RequestRetryable ==
  /\ op = "fetchWithRetries"
  /\ pc = <<"loop">>
  /\ retryAllowed(attempt)
  /\ \E s \in Statuses :
       /\ ~isOk(s)
       /\ retryable(s)
       /\ responses' = Append(responses, s)
       /\ lastErr' = httpError(s)
  /\ attempt' = attempt + 1
  /\ pc' = <<"backoff">>
  /\ UNCHANGED <<op, arg, out>>
  /\ UNCHANGED <<callVars, poolVars, limiterVars>>

\* rateLimitedFetch throws: the error is kept and the backoff sleep begins
RequestThrows ==
  /\ op = "fetchWithRetries"
  /\ pc = <<"loop">>
  /\ retryAllowed(attempt)
  /\ responses' = Append(responses, Thrown)
  /\ lastErr' = "network error"
  /\ attempt' = attempt + 1
  /\ pc' = <<"backoff">>
  /\ UNCHANGED <<op, arg, out>>
  /\ UNCHANGED <<callVars, poolVars, limiterVars>>

\* the backoff sleep ends
BackoffEnds ==
  /\ op = "fetchWithRetries"
  /\ pc = <<"backoff">>
  /\ pc' = <<"loop">>
  /\ UNCHANGED <<op, arg, out, attempt, lastErr, responses>>
  /\ UNCHANGED <<callVars, poolVars, limiterVars>>

\* the loop ends: throw lastErr ?? new Error("fetch failed")
RetriesExhausted ==
  /\ op = "fetchWithRetries"
  /\ pc = <<"loop">>
  /\ ~retryAllowed(attempt)
  /\ out' = ThrownError(IF lastErr # "" THEN lastErr ELSE "fetch failed")
  /\ pc' = <<"threw">>
  /\ UNCHANGED <<op, arg, attempt, lastErr, responses>>
  /\ UNCHANGED <<callVars, poolVars, limiterVars>>

NextRetry ==
  \/ RequestOk
  \/ RequestNotRetryable
  \/ RequestRetryable
  \/ RequestThrows
  \/ BackoffEnds
  \/ RetriesExhausted

SpecRetry == InitRetry /\ [][NextRetry]_vars

\* ------------------------------------------------------------------------
\* Properties
\* ------------------------------------------------------------------------
Ymd(y, m, d) == [y |-> y, m |-> m, d |-> d]

\* the duration a definition asks for
DurationOf(n) == IF "durationDays" \in DOMAIN n THEN n.durationDays ELSE 9

ResolvedNovena == op = "resolveNovenaForYear" /\ out.kind = "instance"

\* C1: every instance returned by resolveNovenaForYear starts exactly
\* durationDays - 1 days before its feast date, so the inclusive span
\* feastDate - startDate + 1 is durationDays and the start is not after the
\* feast; durationDays is the definition's value, or 9 when it has none.
C1_SpanIsDuration ==
  ResolvedNovena =>
    /\ out.durationDays = DurationOf(arg)
    /\ out.startDate = out.feastDate - (DurationOf(arg) - 1) * HoursPerDay
    /\ DayNumber(out.feastDate) - DayNumber(out.startDate) + 1
         = DurationOf(arg)
    /\ out.startDate <= out.feastDate

C1_Witness ==
  /\ ResolvedNovena
  /\ "durationDays" \notin DOMAIN arg
  /\ "startRule" \in DOMAIN arg
  /\ arg.feastRule.type = "relative"
  /\ toYmd(out.startDate) # toYmd(out.feastDate)

\* the start rule of the definition resolves to a date other than the
\* canonical start of a definition whose feast rule and duration are valid
HintMismatch ==
  /\ op = "resolveNovenaForYear"
  /\ "startRule" \in DOMAIN arg
  /\ DurationOf(arg) >= 1 /\ DurationOf(arg) <= 4000
  /\ resolveRule(arg.feastRule, year, anchors, NoCtx).kind = "date"
  /\ resolveRule(arg.startRule, year, anchors, FeastCtx(arg.feastRule)).kind
       = "date"
  /\ resolveRule(arg.startRule, year, anchors, FeastCtx(arg.feastRule)).t
       # resolveRule(arg.feastRule, year, anchors, NoCtx).t
           - (DurationOf(arg) - 1) * HoursPerDay

\* C2: when the start rule resolves to a date other than the canonical start
\* feastDate - (durationDays - 1), resolveNovenaForYear returns an instance
\* (no error) whose startDate is the canonical start; feast Fixed(6,29) with
\* 9 days and the hint Fixed(6,20) starts on June 21 and ends on June 29.
C2_MismatchedHintDiscarded ==
  /\ HintMismatch =>
       /\ out.kind = "instance"
       /\ out.startDate
            = resolveRule(arg.feastRule, year, anchors, NoCtx).t
                - (DurationOf(arg) - 1) * HoursPerDay
  /\ ( /\ op = "resolveNovenaForYear"
       /\ arg = [id |-> "n", feastRule |-> Fixed(6, 29),
                 startRule |-> Fixed(6, 20), durationDays |-> 9] )
     => /\ out.kind = "instance"
        /\ toYmd(out.startDate) = Ymd(year, 6, 21)
        /\ toYmd(out.feastDate) = Ymd(year, 6, 29)

C2_Witness ==
  /\ HintMismatch
  /\ year = 2025
  /\ arg.feastRule = Fixed(6, 29)
  /\ arg.startRule = Fixed(6, 20)
  /\ DurationOf(arg) = 9
  /\ out.kind = "instance"
  /\ toYmd(out.startDate) = Ymd(2025, 6, 21)

CrossYearCase ==
  /\ op = "resolveNovenaForYear"
  /\ year = 2026
  /\ arg.feastRule = Fixed(1, 3)
  /\ "startRule" \in DOMAIN arg
  /\ arg.startRule = Fixed(12, 25)

\* C3 as stated: feast Fixed(1,3) with start Fixed(12,25), resolved for 2026
\* (no durationDays given), starts on 2025-12-25 and ends on 2026-01-03.
C3_Original ==
  (CrossYearCase /\ "durationDays" \notin DOMAIN arg) =>
    /\ out.kind = "instance"
    /\ toYmd(out.startDate) = Ymd(2025, 12, 25)
    /\ toYmd(out.feastDate) = Ymd(2026, 1, 3)
    /\ DayNumber(out.feastDate) - DayNumber(out.startDate) + 1
         = out.durationDays

\* C3 amended: feast Fixed(1,3) with start Fixed(12,25), resolved for 2026
\* with a valid duration, ends on 2026-01-03 and starts durationDays - 1 days
\* earlier: on 2025-12-26 for the default 9 days (the hint is discarded), on
\* 2025-12-25 exactly when durationDays is 10; the span is durationDays.
C3_CrossYear ==
  (CrossYearCase /\ DurationOf(arg) >= 1 /\ DurationOf(arg) <= 4000) =>
    /\ out.kind = "instance"
    /\ toYmd(out.feastDate) = Ymd(2026, 1, 3)
    /\ DayNumber(out.feastDate) - DayNumber(out.startDate) + 1
         = out.durationDays
    /\ out.durationDays = DurationOf(arg)
    /\ (DurationOf(arg) = 9 => toYmd(out.startDate) = Ymd(2025, 12, 26))
    /\ (toYmd(out.startDate) = Ymd(2025, 12, 25) <=> DurationOf(arg) = 10)

C3_Witness ==
  /\ CrossYearCase
  /\ DurationOf(arg) = 10
  /\ out.kind = "instance"
  /\ toYmd(out.startDate) = Ymd(2025, 12, 25)
  /\ toYmd(out.feastDate) = Ymd(2026, 1, 3)

\* the anchor key a before_feast rule resolves against
BeforeFeastAnchor(r, c) ==
  IF "anchor" \in DOMAIN r THEN r.anchor ELSE c.feastRule.anchor

\* C4: a before_feast rule that resolves gives the feast's date minus
\* (daysBefore - 1) days, in the rule engine of novenasRules (the feast is the
\* rule's anchor, else the anchor of the feast rule) and in computeDateForRule
\* (the feast is the feast date of the context); 9 days before a feast on
\* 2025-06-29 is 2025-06-21.
C4_BeforeFeastInclusive ==
  /\ (op = "resolveRule" /\ arg.type = "before_feast" /\ out.kind = "date")
     => DayNumber(out.t)
          = DayNumber(anchors[BeforeFeastAnchor(arg, ctx)])
              - (arg.daysBefore - 1)
  /\ (op = "computeDateForRule" /\ arg.type = "before_feast"
        /\ out.kind = "date")
     => DayNumber(out.t) = DayNumber(ctx.feastDate) - (arg.daysBefore - 1)

\* C5: nth_weekday_after with a weekday in 0..6, n >= 1 and a known anchor
\* resolves, in both engines, to a date on that weekday that lies 7(n-1)+1 to
\* 7n days after the anchor date, so never to the anchor date itself.
NthCase ==
  /\ op \in {"resolveRule", "computeDateForRule"}
  /\ arg.type = "nth_weekday_after"
  /\ Number_isInteger(arg, "weekday") /\ arg.weekday \in 0 .. 6
  /\ Number_isInteger(arg, "n") /\ arg.n >= 1

NthAnchorKnown ==
  IF op = "resolveRule"
  THEN arg.anchor \in DOMAIN anchors /\ anchors[arg.anchor] # NaN
  ELSE computeAnchorDate(arg.anchor, year).kind = "date"

NthAnchorDay ==
  IF op = "resolveRule" THEN DayNumber(anchors[arg.anchor])
  ELSE DayNumber(computeAnchorDate(arg.anchor, year).t)

C5_NthWeekdayStrictlyAfter ==
  (NthCase /\ NthAnchorKnown) =>
    /\ out.kind = "date"
    /\ getUTCDay(out.t) = arg.weekday
    /\ DayNumber(out.t) - NthAnchorDay >= 7 * (arg.n - 1) + 1
    /\ DayNumber(out.t) - NthAnchorDay <= 7 * arg.n

\* the anchor falls on the requested weekday: the result is a week later
C5_Witness ==
  /\ NthCase /\ NthAnchorKnown
  /\ op = "resolveRule"
  /\ arg.n = 1
  /\ getUTCDay(anchors[arg.anchor]) = arg.weekday
  /\ out.kind = "date"
  /\ DayNumber(out.t) - NthAnchorDay = 7

\* the anchor key a rule of the novenasRules engine looks up, "" when none
UsedAnchor(r, c) ==
  CASE r.type \in {"anchor", "relative", "nth_weekday_after"} -> r.anchor
    [] r.type = "before_feast" /\ "anchor" \in DOMAIN r -> r.anchor
    [] r.type = "before_feast" /\ "anchor" \notin DOMAIN r
         /\ c.hasFeastRule /\ c.feastRule.type = "anchor" -> c.feastRule.anchor
    [] OTHER -> ""

\* C6: a rule whose anchor key is not in the anchor table never resolves to a
\* date: resolveRule, computeDateForRule (whose table is the key list of
\* computeAnchorDate) and computeAnchorDate itself return an error, and so
\* does resolveNovenaForYear when the feast rule is such a rule.
C6_UnknownAnchorFails ==
  /\ ( /\ op = "resolveRule"
       /\ UsedAnchor(arg, ctx) # ""
       /\ UsedAnchor(arg, ctx) \notin DOMAIN anchors )
     => out.kind = "error"
  /\ ( /\ op = "computeDateForRule"
       /\ arg.type \in {"anchor", "relative", "nth_weekday_after"}
       /\ arg.anchor \in {"feast", "nonexistent_key"} )
     => out.kind = "error"
  /\ (op = "computeAnchorDate" /\ arg.kind \in {"palm_sunday", "nonexistent_key"})
     => out.kind = "error"
  /\ ( /\ op = "resolveNovenaForYear"
       /\ UsedAnchor(arg.feastRule, NoCtx) # ""
       /\ UsedAnchor(arg.feastRule, NoCtx) \notin DOMAIN anchors )
     => out.kind = "error"

C6_Witness ==
  /\ op = "resolveRule"
  /\ year = 2025
  /\ arg = AnchorRule("nonexistent_key")
  /\ "easter" \in DOMAIN anchors
  /\ out.kind = "error"

\* C7: a raw rule handed to a rule engine makes the call fail with an error:
\* resolveRule and computeDateForRule return no value for it, and a novena
\* whose feast rule or start rule is raw is not resolved.
C7_RawRuleFails ==
  /\ (op \in {"resolveRule", "computeDateForRule"} /\ arg.type = "raw")
     => out.kind = "error"
  /\ ( /\ op \in {"resolveNovenaForYear", "computeNovenaDatesForYearStrict"}
       /\ \/ arg.feastRule.type = "raw"
          \/ ("startRule" \in DOMAIN arg /\ arg.startRule.type = "raw") )
     => out.kind = "error"

EasterOffsets ==
  [ash_wednesday |-> -46, shrove_tuesday |-> -47, palm_sunday |-> -7,
   holy_thursday |-> -3, good_friday |-> -2, holy_saturday |-> -1,
   divine_mercy_sunday |-> 7, ascension_thursday |-> 39,
   ascension_sunday |-> 42, pentecost |-> 49, trinity_sunday |-> 56,
   corpus_christi |-> 60, corpus_christi_sunday |-> 63, sacred_heart |-> 68,
   immaculate_heart |-> 69]

MoveableMapOffsets ==
  [ashWednesday |-> -46, palmSunday |-> -7, holyThursday |-> -3,
   goodFriday |-> -2, holySaturday |-> -1, pentecost |-> 49]

\* C8: in the anchor table built for a year every Easter-offset anchor is
\* computeEasterSunday(year) plus its offset in days (ash_wednesday -46 ...
\* immaculate_heart +69), and its entry "easter" is Easter Sunday itself; the
\* same holds of buildMoveableMapForYear and of computeAnchorDate.
C8_AnchorsAreEasterOffsets ==
  /\ op = "buildNovenaAnchorsForYear" =>
       /\ out.easter = computeEasterSunday(year)
       /\ \A k \in DOMAIN EasterOffsets :
            /\ k \in DOMAIN out
            /\ out[k] = computeEasterSunday(year)
                          + EasterOffsets[k] * HoursPerDay
  /\ op = "buildMoveableMapForYear" =>
       \A k \in DOMAIN MoveableMapOffsets :
         out[k] = computeEasterSunday(year)
                    + MoveableMapOffsets[k] * HoursPerDay
  /\ (op = "computeAnchorDate" /\ arg.kind \in DOMAIN EasterOffsets
        /\ out.kind = "date")
     => out.t = ld_computeEasterSunday(year)
                  + EasterOffsets[arg.kind] * HoursPerDay

\* a year whose Shrove Tuesday falls in the month before Ash Wednesday's
C8_Witness ==
  /\ op = "buildNovenaAnchorsForYear"
  /\ toYmd(out.shrove_tuesday).m # toYmd(out.ash_wednesday).m
  /\ DayNumber(out.ash_wednesday) - DayNumber(out.shrove_tuesday) = 1

\* C9: computeEasterSunday (both copies) gives 2024-03-31, 2025-04-20,
\* 2000-04-23 and 1900-04-15.
C9_KnownEasters ==
  op = "computeEasterSunday" =>
    /\ year = 2024 => toYmd(out.t) = Ymd(2024, 3, 31)
    /\ year = 2025 => toYmd(out.t) = Ymd(2025, 4, 20)
    /\ year = 2000 => toYmd(out.t) = Ymd(2000, 4, 23)
    /\ year = 1900 => toYmd(out.t) = Ymd(1900, 4, 15)

C9_Witness ==
  /\ op = "computeEasterSunday"
  /\ arg.kind = "liturgicalEngine"
  /\ year = 1900
  /\ toYmd(out.t) = Ymd(1900, 4, 15)

\* the numbered "Sunday in Ordinary Time" entries of a calendar
IsOTSunday(o) == o.rank = "Sunday" /\ o.season = "Ordinary Time"

\* the number in the title of a numbered Sunday
OTNumber(o) ==
  CHOOSE n \in 1 .. 40 : o.title = ordinal(n) \o " Sunday in Ordinary Time"

KeyDay(k) == DaysFromCivil(k.y, k.m, k.d)

\* day numbers of the dates that carry a numbered Sunday
OTSundayDays(cal) ==
  {KeyDay(k) : k \in {x \in DOMAIN cal :
                        \E i \in 1 .. Len(cal[x]) : IsOTSunday(cal[x][i])}}

\* the number of the numbered Sunday on day number dn
OTNumberOn(cal, dn) ==
  LET k == CHOOSE x \in DOMAIN cal : KeyDay(x) = dn
      i == CHOOSE j \in 1 .. Len(cal[k]) : IsOTSunday(cal[k][j])
  IN  OTNumber(cal[k][i])

SetMax(S) == CHOOSE x \in S : \A z \in S : z <= x
SetMin(S) == CHOOSE x \in S : \A z \in S : x <= z

\* the last numbered Sunday before Lent and the first one after Pentecost
LastPreLentSunday(cal, y) ==
  SetMax({d \in OTSundayDays(cal) : d < DayNumber(computeEasterSunday(y)) - 46})
FirstPostPentecostSunday(cal, y) ==
  SetMin({d \in OTSundayDays(cal) : d > DayNumber(computeEasterSunday(y)) + 49})

\* C10: in the calendar built for a year the first numbered Sunday in
\* Ordinary Time after Pentecost carries the number of the last numbered
\* Sunday before Lent plus 1.
C10_NumberingResumes ==
  op = "computeMovableFeastsForYear" =>
    OTNumberOn(out, FirstPostPentecostSunday(out, year))
      = OTNumberOn(out, LastPreLentSunday(out, year)) + 1

\* the numbered Sundays listed under the key k of a calendar
OTSundaysAt(cal, k) ==
  {i \in 1 .. Len(cal[k]) : IsOTSunday(cal[k][i])}

\* C11: in the calendar built for a year no date carries two numbered
\* Sundays in Ordinary Time, the numbers of the numbered Sundays are
\* strictly increasing in date order across both spans (so none occurs
\* twice), and none exceeds 34.
C11_NumbersIncreaseUpTo34 ==
  op = "computeMovableFeastsForYear" =>
    /\ \A k \in DOMAIN out : Cardinality(OTSundaysAt(out, k)) <= 1
    /\ \A d1, d2 \in OTSundayDays(out) :
         d1 < d2 => OTNumberOn(out, d1) < OTNumberOn(out, d2)
    /\ \A d \in OTSundayDays(out) : OTNumberOn(out, d) <= 34

\* a year whose numbering climbs from the first span into the second and
\* reaches 34 on the Sunday of Christ the King
C11_Witness ==
  /\ op = "computeMovableFeastsForYear"
  /\ DayNumber(mf_christTheKing(year)) \in OTSundayDays(out)
  /\ OTNumberOn(out, DayNumber(mf_christTheKing(year))) = 34
  /\ OTNumberOn(out, LastPreLentSunday(out, year))
       < OTNumberOn(out, FirstPostPentecostSunday(out, year))

\* a call of resolveRule on a Relative rule whose anchor the table holds
\* and whose weekday, when there is one, is a weekday
RelativeCase ==
  /\ op = "resolveRule"
  /\ arg.type = "relative"
  /\ arg.anchor \in DOMAIN anchors
  /\ isValidDate(anchors[arg.anchor])
  /\ "weekday" \in DOMAIN arg =>
       Number_isInteger(arg, "weekday") /\ arg.weekday \in 0 .. 6

\* the civil day anchor + offsetDays of a Relative rule
RelativeTarget == DayNumber(anchors[arg.anchor]) + arg.offsetDays

RelativePolicy ==
  IF "weekdayPolicy" \in DOMAIN arg THEN arg.weekdayPolicy ELSE "onOrAfter"

\* C12: a Relative rule without a weekday resolves to anchor + offsetDays;
\* with a weekday it resolves to a date of that weekday 0 to 6 days after
\* anchor + offsetDays under onOrAfter (the default), 0 to 6 days before it
\* under onOrBefore, and to anchor + offsetDays itself when that day already
\* has the weekday.
C12_RelativeSnapsByPolicy ==
  RelativeCase =>
    /\ out.kind = "date"
    /\ "weekday" \notin DOMAIN arg => DayNumber(out.t) = RelativeTarget
    /\ "weekday" \in DOMAIN arg =>
         /\ getUTCDay(out.t) = arg.weekday
         /\ RelativePolicy = "onOrAfter" =>
              DayNumber(out.t) - RelativeTarget \in 0 .. 6
         /\ RelativePolicy = "onOrBefore" =>
              RelativeTarget - DayNumber(out.t) \in 0 .. 6
         /\ (RelativeTarget + 4) % 7 = arg.weekday =>
              DayNumber(out.t) = RelativeTarget

\* an onOrBefore rule with a negative offset that moved back from
\* anchor + offsetDays
C12_Witness ==
  /\ RelativeCase
  /\ "weekday" \in DOMAIN arg
  /\ RelativePolicy = "onOrBefore"
  /\ arg.offsetDays < 0
  /\ out.kind = "date"
  /\ DayNumber(out.t) < RelativeTarget

\* a before_feast rule without an anchor of its own
BareBeforeFeast(r) == r.type = "before_feast" /\ "anchor" \notin DOMAIN r

\* C13: a before_feast rule without an anchor of its own yields an error and
\* no date whenever no feast rule is supplied as context or the supplied
\* feast rule is not an anchor rule; a novena whose start rule is such a
\* rule and whose feast rule is not an anchor rule is not resolved.
C13_BeforeFeastNeedsAnchor ==
  /\ ( /\ op = "resolveRule"
       /\ BareBeforeFeast(arg)
       /\ (~ctx.hasFeastRule \/ ctx.feastRule.type # "anchor") )
     => out.kind = "error"
  /\ ( /\ op = "resolveNovenaForYear"
       /\ "startRule" \in DOMAIN arg
       /\ BareBeforeFeast(arg.startRule)
       /\ arg.feastRule.type # "anchor" )
     => out.kind = "error"

\* a well-formed before_feast rule fails for want of an anchor although the
\* feast rule is supplied (a Fixed rule) and the table has a "feast" entry
C13_Witness ==
  /\ op = "resolveRule"
  /\ BareBeforeFeast(arg)
  /\ arg.daysBefore = 9
  /\ ctx.hasFeastRule
  /\ ctx.feastRule.type = "fixed"
  /\ "feast" \in DOMAIN anchors
  /\ isValidDate(anchors["feast"])
  /\ out = Err("before_feast requires anchor or feastRule must be type=anchor")

\* the numeric field f of rec is a whole number of the set S
WholeIn(rec, f, S) == Number_isInteger(rec, f) /\ rec[f] \in S

\* a rule with a malformed parameter
MalformedRule(r) ==
  CASE r.type = "fixed" -> r.month \notin 1 .. 12 \/ r.day \notin 1 .. 31
    [] r.type = "relative" ->
         "weekday" \in DOMAIN r /\ ~WholeIn(r, "weekday", 0 .. 6)
    [] r.type = "nth_weekday_after" ->
         \/ ~(Number_isInteger(r, "n") /\ r.n >= 1)
         \/ ~WholeIn(r, "weekday", 0 .. 6)
    [] r.type = "before_feast" -> r.daysBefore < 1
    [] OTHER -> FALSE

\* a novena definition with a malformed rule or duration
MalformedDef(n) ==
  \/ MalformedRule(n.feastRule)
  \/ "startRule" \in DOMAIN n /\ MalformedRule(n.startRule)
  \/ "durationDays" \in DOMAIN n /\ ~WholeIn(n, "durationDays", 1 .. 4000)

\* C14: a rule with a malformed parameter (nth_weekday_after with n below 1
\* or not whole, a weekday that is not a whole number of 0..6 in
\* nth_weekday_after or relative, before_feast with daysBefore below 1, fixed
\* with a month outside 1..12 or a day outside 1..31) resolves to an error
\* and no date, and a novena definition with such a rule or with a
\* durationDays that is not a whole number of 1..4000 yields an error and no
\* instance.
C14_MalformedRejected ==
  /\ (op = "resolveRule" /\ MalformedRule(arg)) => out.kind = "error"
  /\ (op = "resolveNovenaForYear" /\ MalformedDef(arg)) => out.kind = "error"

\* a definition that is malformed only by its duration of 9.5 days, its
\* feast rule resolving against the table
C14_Witness ==
  /\ op = "resolveNovenaForYear"
  /\ "durationDays" \in DOMAIN arg
  /\ arg.durationDays = 9
  /\ ~Number_isInteger(arg, "durationDays")
  /\ arg.feastRule = AnchorRule("easter")
  /\ out = Failure("durationDays invalid")

HolyFamilyCase ==
  \/ op = "buildNovenaAnchorsForYear"
  \/ op = "computeAnchorDate" /\ arg.kind = "holy_family"

HolyFamilyDate ==
  IF op = "buildNovenaAnchorsForYear" THEN out.holy_family ELSE out.t

ChristmasOnSunday(y) == getUTCDay(DateUTC(y, 11, 25, 0)) = 0

\* C16: the holy_family anchor of a year is a day of Dec 26 .. Dec 31 of that
\* year; it is the one Sunday of those six days unless Dec 25 is a Sunday,
\* and then, and only then, it is Dec 30, which is no Sunday.
C16_HolyFamily ==
  HolyFamilyCase =>
    /\ toYmd(HolyFamilyDate).y = year
    /\ toYmd(HolyFamilyDate).m = 12
    /\ toYmd(HolyFamilyDate).d \in 26 .. 31
    /\ ~ChristmasOnSunday(year) => getUTCDay(HolyFamilyDate) = 0
    /\ ChristmasOnSunday(year) <=> toYmd(HolyFamilyDate).d = 30
                                     /\ getUTCDay(HolyFamilyDate) # 0
    /\ Cardinality({d \in 26 .. 31 :
                      getUTCDay(DateUTC(year, 11, d, 0)) = 0})
         = IF ChristmasOnSunday(year) THEN 0 ELSE 1

\* a year whose Christmas is a Sunday: the older engine falls back to Dec 30
C16_Witness ==
  /\ op = "computeAnchorDate"
  /\ arg.kind = "holy_family"
  /\ ChristmasOnSunday(year)
  /\ out.kind = "date"
  /\ toYmd(out.t) = Ymd(year, 12, 30)

\* the keys of a calendar that list an entry with the id
KeysOf(cal, id) ==
  {k \in DOMAIN cal : \E i \in 1 .. Len(cal[k]) : cal[k][i].id = id}

\* the day number of the first Sunday strictly after Jan 6 of the year
BaptismDay(y) ==
  SetMin({d \in DayNumber(DateUTC(y, 0, 7, 0)) .. DayNumber(DateUTC(y, 0, 13, 0)) :
            (d + 4) % 7 = 0})

\* the day number of a date of Baptism of the Lord is the first Sunday after
\* Jan 6: a day of Jan 7 .. Jan 13, and Jan 13 when Jan 6 is a Sunday
IsBaptismDay(dn, y) ==
  /\ dn = BaptismDay(y)
  /\ CivilFromDays(dn).y = y
  /\ CivilFromDays(dn).m = 1
  /\ CivilFromDays(dn).d \in 7 .. 13
  /\ getUTCDay(DateUTC(y, 0, 6, 0)) = 0 => CivilFromDays(dn).d = 13

\* C17: for every year the anchor table (baptism_of_the_lord), the
\* observance calendar (the one date that lists baptism_of_the_lord) and the
\* rule list MOVABLE_FEAST_RULES give Baptism of the Lord on the first Sunday
\* strictly after Jan 6, a day of Jan 7 .. Jan 13 that is Jan 13 when Jan 6 is
\* a Sunday.
C17_BaptismAfterEpiphany ==
  /\ op = "buildNovenaAnchorsForYear" =>
       IsBaptismDay(DayNumber(out.baptism_of_the_lord), year)
  /\ op = "computeMovableFeastsForYear" =>
       /\ Cardinality(KeysOf(out, "baptism_of_the_lord")) = 1
       /\ \A k \in KeysOf(out, "baptism_of_the_lord") :
            IsBaptismDay(KeyDay(k), year)
  /\ (op = "rule.computeDate" /\ arg.kind = "baptism_of_the_lord") =>
       IsBaptismDay(DayNumber(out.t), year)

\* a year whose Jan 6 is a Sunday: the rule list gives Jan 13
C17_Witness ==
  /\ op = "rule.computeDate"
  /\ arg.kind = "baptism_of_the_lord"
  /\ getUTCDay(DateUTC(year, 0, 6, 0)) = 0
  /\ toYmd(out.t) = Ymd(year, 1, 13)

\* the places <<key, index>> of a calendar that hold a season marker
MarkerPlaces(cal) ==
  UNION {{<<k, i>> : i \in {j \in 1 .. Len(cal[k]) :
                              cal[k][j].kind = "SeasonMarker"}} :
         k \in DOMAIN cal}

\* day number, id and season of every season marker of a calendar
SeasonMarkers(cal) ==
  {<<KeyDay(p[1]), cal[p[1]][p[2]].id, cal[p[1]][p[2]].season>> :
     p \in MarkerPlaces(cal)}

\* the day number of the first Sunday on or after Nov 27 of the year
AdventDay(y) ==
  SetMin({d \in DayNumber(DateUTC(y, 10, 27, 0)) ..
                  DayNumber(DateUTC(y, 10, 27, 0)) + 6 : (d + 4) % 7 = 0})

EasterDay(y) == DayNumber(computeEasterSunday(y))

\* C18: the calendar built for a year holds exactly six season markers:
\* Advent on the Sunday on or after Nov 27, Christmas on Dec 25, Ordinary
\* Time on the day after Baptism of the Lord, Lent on Ash Wednesday
\* (Easter - 46), Easter on Easter Sunday and Ordinary Time again on the day
\* after Pentecost (Easter + 50).
C18_SixSeasonMarkers ==
  op = "computeMovableFeastsForYear" =>
    /\ Cardinality(MarkerPlaces(out)) = 6
    /\ SeasonMarkers(out) =
         {<<AdventDay(year), "season_advent_begins", "Advent">>,
          <<DayNumber(DateUTC(year, 11, 25, 0)), "season_christmas_begins",
            "Christmas">>,
          <<BaptismDay(year) + 1, "season_ordinary_time_begins_part1",
            "Ordinary Time">>,
          <<EasterDay(year) - 46, "season_lent_begins", "Lent">>,
          <<EasterDay(year), "season_easter_begins", "Easter">>,
          <<EasterDay(year) + 50, "season_ordinary_time_begins_part2",
            "Ordinary Time">>}

\* a year whose Nov 27 is a Sunday, so that Advent begins on Nov 27 itself,
\* with the six markers on six different dates
C18_Witness ==
  /\ op = "computeMovableFeastsForYear"
  /\ AdventDay(year) = DayNumber(DateUTC(year, 10, 27, 0))
  /\ Cardinality({m[1] : m \in SeasonMarkers(out)}) = 6

\* the list under a key is free of repeated ids and runs from the heaviest
\* rank to the lightest, entries of one rank in the order of their titles
DayListNormal(list) ==
  \A i, j \in 1 .. Len(list) :
    i < j =>
      /\ list[i].id # list[j].id
      /\ weight(list[i].rank) >= weight(list[j].rank)
      /\ weight(list[i].rank) = weight(list[j].rank) =>
           localeCompare(list[i].title, list[j].title) <= 0

\* C19: in the map the calendar builder returns, the list of every date key
\* holds no two entries with the same id and is ordered by rank (Triduum,
\* Solemnity, Sunday, Feast, Memorial, Optional Memorial, Weekday), entries
\* of equal rank by title.
C19_DayListsNormalized ==
  op = "computeMovableFeastsForYear" =>
    \A k \in DOMAIN out : DayListNormal(out[k])

\* a date whose entries were pushed in another order than the one returned,
\* with two entries of one rank among them
C19_Witness ==
  /\ op = "computeMovableFeastsForYear"
  /\ \E k \in DOMAIN out :
       /\ out[k] # pushAll(movableFeastPushes(year))[k]
       /\ \E i, j \in 1 .. Len(out[k]) :
            i < j /\ out[k][i].rank = out[k][j].rank

\* the day number of the YYYY-MM-DD key of a date
KeyDayOf(t) == KeyDay(toYmd(t))

\* the weekday of a day number
WeekdayOfDay(dn) == (dn + 4) % 7

\* the day number that whole-day arithmetic on the keys of the anchor table
\* gives for a rule that resolved: a is the day of the key of its anchor
ExpectedDay(r, a) ==
  CASE r.type = "anchor" -> a
    [] r.type = "relative" /\ "weekday" \notin DOMAIN r -> a + r.offsetDays
    [] r.type = "relative" /\ "weekday" \in DOMAIN r ->
         IF "weekdayPolicy" \in DOMAIN r /\ r.weekdayPolicy = "onOrBefore"
         THEN a + r.offsetDays
                - ((WeekdayOfDay(a + r.offsetDays) - r.weekday + 7) % 7)
         ELSE a + r.offsetDays
                + ((r.weekday - WeekdayOfDay(a + r.offsetDays) + 7) % 7)
    [] r.type = "nth_weekday_after" ->
         a + 1 + ((r.weekday - WeekdayOfDay(a + 1) + 7) % 7) + 7 * (r.n - 1)
    [] r.type = "before_feast" -> a - (r.daysBefore - 1)

\* C20: whatever the time of day of the anchor table entries (noon or
\* midnight), the YYYY-MM-DD key of the date a rule resolves to is the civil
\* date computed in whole days from the YYYY-MM-DD key of the anchor entry
\* (from the year, month and day for a fixed rule), and the keys of the start
\* and the feast of a resolved novena lie durationDays - 1 days apart.
C20_NoDayShift ==
  /\ ( /\ op = "resolveRule"
       /\ out.kind = "date"
       /\ arg.type \in {"anchor", "relative", "nth_weekday_after",
                        "before_feast"} )
     => KeyDayOf(out.t)
          = ExpectedDay(arg, KeyDayOf(anchors[UsedAnchor(arg, ctx)]))
  /\ (op = "resolveRule" /\ out.kind = "date" /\ arg.type = "fixed")
     => KeyDayOf(out.t)
          = KeyDay(Ymd(year, arg.month, 1)) + arg.day - 1
  /\ ResolvedNovena =>
       KeyDayOf(out.feastDate) - KeyDayOf(out.startDate)
         = out.durationDays - 1

\* a rule that counts back from an anchor entry kept at noon and resolves to
\* a midnight date
C20_Witness ==
  /\ op = "resolveRule"
  /\ arg.type = "relative"
  /\ arg.offsetDays < 0
  /\ "weekday" \in DOMAIN arg
  /\ out.kind = "date"
  /\ HourOfDay(anchors[arg.anchor]) = 12
  /\ HourOfDay(out.t) = 0

\* what the batch call made on its definition i alone
AloneResult(i) ==
  IF op = "getNovenasForYear"
  THEN resolveNovenaForYear(arg[i], year, anchors)
  ELSE computeNovenaDatesForYearStrict(arg[i], year)

\* the ids of the entries a batch call returned
ReturnedIds == {out.list[j].id : j \in 1 .. Len(out.list)}

\* C21: a batch call of getNovenasForYear (resolveNovenasForYear) or
\* buildCalendarForYear returns a list, and the list holds every definition
\* of the batch that resolves on its own, whether or not another definition
\* of the batch fails.
C21_BatchIsolatesFailures ==
  op \in {"getNovenasForYear", "buildCalendarForYear"} =>
    /\ out.kind = "instances"
    /\ \A i \in 1 .. Len(arg) :
         AloneResult(i).kind # "error" => arg[i].id \in ReturnedIds

\* the Sundays of Ordinary Time of the year y, as day numbers: from a week
\* after Baptism of the Lord to the last Sunday before Ash Wednesday, and
\* from the first Sunday after Pentecost to Christ the King
ExpectedOTSundays(y) ==
  {d \in BaptismDay(y) + 7 .. EasterDay(y) - 47 : WeekdayOfDay(d) = 0}
    \cup {d \in EasterDay(y) + 50 .. AdventDay(y) - 7 : WeekdayOfDay(d) = 0}

\* the keys of a calendar that fall on the day number dn
KeysOn(cal, dn) == {k \in DOMAIN cal : KeyDay(k) = dn}

\* C22: in the calendar built for a year of 1900..2100 every Sunday from the
\* one a week after Baptism of the Lord through the last Sunday before Ash
\* Wednesday, and every Sunday from the first after Pentecost through Christ
\* the King, carries exactly one numbered Sunday in Ordinary Time: the cap
\* at 34 drops none.
C22_EveryOTSundayNumbered ==
  op = "computeMovableFeastsForYear" =>
    \A d \in ExpectedOTSundays(year) :
      /\ Cardinality(KeysOn(out, d)) = 1
      /\ \A k \in KeysOn(out, d) : Cardinality(OTSundaysAt(out, k)) = 1

\* a year whose last Sunday of Ordinary Time, Christ the King, is numbered
\* 34 and so lies just within the cap
C22_Witness ==
  /\ op = "computeMovableFeastsForYear"
  /\ Cardinality(ExpectedOTSundays(year)) = 32
  /\ AdventDay(year) - 7 \in OTSundayDays(out)
  /\ OTNumberOn(out, AdventDay(year) - 7) = 34

\* the feast rule of the entry of a call of computeNovenaDatesForYearStrict,
\* and its start rule computed for the year y
StrictFeast == computeDateForRule(arg.feastRule, year, NoFeastDate)
StrictStart(y) ==
  computeDateForRule(arg.startRule, y, FeastDateCtx(StrictFeast.t))

\* a call of computeNovenaDatesForYearStrict whose feast rule and start rule
\* both compute in the requested year
StrictCase ==
  /\ op = "computeNovenaDatesForYearStrict"
  /\ StrictFeast.kind = "date"
  /\ StrictStart(year).kind = "date"

\* C23: computeNovenaDatesForYearStrict returns a pair whose start is not
\* after its feast, or throws.  The start is the start rule computed in the
\* requested year when that is not after the feast; otherwise it is the
\* start rule computed in the year before, adopted only when that is not
\* after the feast, and the call throws when it still is.
C23_StrictStartNotAfterFeast ==
  /\ op = "computeNovenaDatesForYearStrict" =>
       /\ out.kind \in {"dates", "error"}
       /\ out.kind = "dates" => out.startDate <= out.feastDate
  /\ StrictCase /\ StrictStart(year).t <= StrictFeast.t =>
       /\ out.kind = "dates"
       /\ out.startDate = StrictStart(year).t
       /\ out.feastDate = StrictFeast.t
  /\ StrictCase /\ StrictStart(year).t > StrictFeast.t =>
       /\ StrictStart(year - 1).kind = "date"
            /\ StrictStart(year - 1).t <= StrictFeast.t =>
              /\ out.kind = "dates"
              /\ out.startDate = StrictStart(year - 1).t
              /\ out.feastDate = StrictFeast.t
       /\ StrictStart(year - 1).kind = "date"
            /\ StrictStart(year - 1).t > StrictFeast.t =>
              /\ out.kind = "error"
              /\ out.msg = "Start date is after feast date"

\* a call whose start in the requested year is after the feast and that
\* returned the start computed in the year before
C23_Witness ==
  /\ StrictCase
  /\ StrictStart(year).t > StrictFeast.t
  /\ out.kind = "dates"
  /\ out.startDate = StrictStart(year - 1).t
  /\ out.startDate < out.feastDate

\* C24: for every year of 1583..4099 computeEasterSunday returns a Sunday of
\* that year between March 22 and April 25 inclusive, and the copy of the
\* liturgical engine and the copy of the novena date module return the same
\* civil date.
C24_EasterInRangeBothCopies ==
  op = "computeEasterSunday" =>
    /\ out.kind = "date"
    /\ getUTCDay(out.t) = 0
    /\ toYmd(out.t).y = year
    /\ \/ toYmd(out.t).m = 3 /\ toYmd(out.t).d \in 22 .. 31
       \/ toYmd(out.t).m = 4 /\ toYmd(out.t).d \in 1 .. 25
    /\ toYmd(computeEasterSunday(year)) = toYmd(ld_computeEasterSunday(year))

\* the latest Easter, April 25 of 2038, as the copy of the novena date
\* module returns it
C24_Witness ==
  /\ op = "computeEasterSunday"
  /\ arg.kind = "liturgicalDates"
  /\ year = 2038
  /\ toYmd(out.t) = Ymd(2038, 4, 25)

\* the definition of a call of resolveNovenaForYear with its startRule
\* removed
WithoutStartRule(n) == [f \in DOMAIN n \ {"startRule"} |-> n[f]]

\* what resolveRule returns for the start rule of the definition of the call
StartHint == resolveRule(arg.startRule, year, anchors, FeastCtx(arg.feastRule))

\* a call of resolveNovenaForYear on a definition with a start rule whose
\* feast rule and duration alone give an instance
HintedCase ==
  /\ op = "resolveNovenaForYear"
  /\ "startRule" \in DOMAIN arg
  /\ resolveNovenaForYear(WithoutStartRule(arg), year, anchors).kind
       = "instance"

\* C25: when resolving the startRule of a definition raises an error (or
\* yields no date), resolveNovenaForYear raises it and returns no instance,
\* even though feastRule and durationDays alone determine a valid start; and
\* whenever the startRule resolves to a date, the call returns the very
\* instance it returns for the definition with the startRule removed.
C25_StartRuleOnlyCanFail ==
  HintedCase =>
    /\ StartHint.kind = "error" =>
         out.kind = "error" /\ out.msg = StartHint.msg
    /\ StartHint.kind = "value" => out.kind = "error"
    /\ StartHint.kind = "date" =>
         out = resolveNovenaForYear(WithoutStartRule(arg), year, anchors)

\* a call that fails with the error of its start rule although the feast
\* rule and the duration give an instance
C25_Witness ==
  /\ HintedCase
  /\ StartHint.kind = "error"
  /\ out.kind = "error"
  /\ out.msg = StartHint.msg

\* the messages of the two assertions that end resolveNovenaForYear
PostConditionMessages == {"invalid: start after feast", "duration mismatch"}

\* a call of resolveNovenaForYear on a definition with a valid durationDays
\* whose feast rule, and start rule if it has one, resolve to dates
AllResolveCase ==
  /\ op = "resolveNovenaForYear"
  /\ normalizeDurationDays(arg) # 0
  /\ resolveRule(arg.feastRule, year, anchors, NoCtx).kind = "date"
  /\ "startRule" \in DOMAIN arg => StartHint.kind = "date"

\* C26: the two post-condition checks that end resolveNovenaForYear (start
\* not after feast, inclusive span equal to durationDays) never fail: no call
\* ends with their error, and every definition with a valid durationDays
\* whose feast and start rules resolve yields an instance.
C26_PostConditionsNeverFail ==
  /\ op = "resolveNovenaForYear" => out.msg \notin PostConditionMessages
  /\ AllResolveCase => out.kind = "instance"

\* a call whose start rule resolves to a date after the feast and differs
\* from the canonical start, and that still returns an instance
C26_Witness ==
  /\ AllResolveCase
  /\ "startRule" \in DOMAIN arg
  /\ StartHint.t > out.feastDate
  /\ out.kind = "instance"
  /\ out.startDate < out.feastDate

\* the case has thrown before its loop: no loop variable was ever set
ScanThrew ==
  /\ op = "nth_weekday_after: threw"
  /\ "examined" \notin DOMAIN ctx
  /\ out.kind = "error"
  /\ out = resolveRule(arg, year, anchors, NoCtx)

\* the loop has returned, having been entered with a whole weekday of 0..6
\* and a whole n >= 1 and having examined at most 7n days
ScanReturned ==
  /\ op = "nth_weekday_after: returned"
  /\ scanArgsValid(arg)
  /\ ctx.examined <= 7 * arg.n
  /\ out = resolveRule(arg, year, anchors, NoCtx)

\* C27: every run of the nth_weekday_after case ends: it either throws
\* before the loop (the anchor is missing, or weekday is not a whole number
\* of 0..6, or n is not a whole number >= 1), or its scan returns after
\* examining at most 7n days, with the date resolveRule returns.
C27_ScanEndsWithin7n == <>(ScanThrew \/ ScanReturned)

\* a scan for n >= 2 that returned after examining exactly 7n days
C27_Witness ==
  /\ op = "nth_weekday_after: returned"
  /\ arg.n >= 2
  /\ ctx.examined = 7 * arg.n

\* the workers of runPool that await a call of fn
InFlight == {w \in DOMAIN pc : pc[w] = "fn"}

\* the places of the returned list that hold the result of item k
PlacesOf(list, k) == {j \in 1 .. Len(list) : list[j] = k}

C29_RequestsSpaced ==
  op = "rateLimitedFetch" /\ MIN_INTERVAL_MS > 0 =>
    \A a, b \in DOMAIN starts :
      a < b => starts[b] - starts[a] >= MIN_INTERVAL_MS

\* the outcomes of a request after which fetchWithRetries tries again
RetryOutcomes == {0, 429, 500, 502, 503, 504}

\* the error kept for an outcome that is retried
ErrorOf(o) == IF o = 0 THEN "network error" ELSE "HTTP " \o ToString(o)

\* C30: fetchWithRetries issues at most MAX_RETRIES + 1 requests.  Every
\* request but the last ended with a thrown error or a status of 429, 500,
\* 502, 503, 504; a response that is ok or has another status ends the call
\* at once and is what the call returns; the call throws only when
\* MAX_RETRIES + 1 requests were made and all were retried, and then throws
\* the error of the last one.
C30_RetriesBounded ==
  op = "fetchWithRetries" =>
    /\ Len(responses) <= MAX_RETRIES + 1
    /\ \A j \in 1 .. Len(responses) - 1 : responses[j] \in RetryOutcomes
    /\ Len(responses) > 0 /\ responses[Len(responses)] \notin RetryOutcomes =>
         /\ out.kind = "response"
         /\ out.status = responses[Len(responses)]
    /\ out.kind = "response" =>
         /\ out.status = responses[Len(responses)]
         /\ out.status \in 200 .. 299 \/ out.status \notin RetryOutcomes
    /\ out.kind = "error" =>
         /\ Len(responses) = MAX_RETRIES + 1
         /\ \A j \in 1 .. Len(responses) : responses[j] \in RetryOutcomes
         /\ out.msg = IF responses = << >> THEN "fetch failed"
                      ELSE ErrorOf(responses[Len(responses)])

\* a call that threw the HTTP error of its last request after retries that
\* followed a thrown error and a retryable status
C30_Witness ==
  /\ op = "fetchWithRetries"
  /\ out.kind = "error"
  /\ MAX_RETRIES >= 2
  /\ Len(responses) = MAX_RETRIES + 1
  /\ responses[1] = 0
  /\ responses[2] = 429
  /\ out.msg = "HTTP 503"

====
